---- MODULE Spec2Model ----
(***************************************************************************)
(* srv-mon: the group-scoped authorization engine (users, groups,          *)
(* memberships) and the notification dispatch engine (notification         *)
(* configurations, send), modelled from the Next.js API route handlers     *)
(* and the Prisma schema.                                                  *)
(*                                                                         *)
(* The database tables are the state, together with the requests in        *)
(* progress: what each handler holds between two of its database calls and *)
(* where it stands.  Every handler runs by its steps, one action per       *)
(* awaited call: the session (getServerSession, with the checks made       *)
(* before the first database call), then each database call with the       *)
(* checks that follow it, the last of them with the response.  The creates *)
(* a handler starts under Promise.all reach the database one by one, and   *)
(* those still on their way when the handler has answered reach it         *)
(* afterwards.  The requests to the directory routes (users, groups,       *)
(* members, servers, registration) are held in `pending`, those to the     *)
(* notification routes in `slot`.                                          *)
(*                                                                         *)
(* SpecMembers handles the directory requests one after the other from the *)
(* empty database, SpecRoles those of them that write the User table,      *)
(* SpecAccess the requests that address a group, a member or a             *)
(* configuration by id, SpecFrame one membership-changing request at a     *)
(* time against fixed memberships, and SpecTwice sends each addMembers     *)
(* request twice.  Requests run together, two at a time, in SpecServers    *)
(* (server list, server creation, group deletion), SpecJoin (creations of  *)
(* memberships), SpecAdmins (role changes and removals of members),        *)
(* SpecRegister (registrations), SpecUsers (updates and deletions of       *)
(* users), SpecNotif (configuration requests and sends), SpecConfigs       *)
(* (configuration requests) and SpecAttach (configurations created and     *)
(* moved between two groups).  SpecWebhook applies the webhook adapter of  *)
(* the send route (sendWebhook) to every template and event, by its steps. *)
(* The send handler itself ends at prisma.notification.create, a table the *)
(* schema does not declare.  The probe status tracker, of which the        *)
(* repository holds the tables only, is modelled from its specification; in*)
(* SpecTracker it evaluates results for the probes that the probes route   *)
(* creates and starts the send handler.                                    *)
(***************************************************************************)
EXTENDS Integers, Sequences, FiniteSets, TLC

(* ---------------------------------------------------------------- domains *)

\* The user identities of the model.  A user id stands for the account and
\* its (unique) e-mail address: creating an account with a known address is
\* creating the user of that id again.
UserIds == {"u1", "u2", "u3"}

\* The group ids (uuid values) that the URLs and the bodies of the directory
\* and configuration requests name.
GroupIds == {"g1"}

\* The caller of a request that carries no session.
NoUser == "anonymous"

\* A row that is not in its table.
Absent == "ABSENT"

\* Longest list of {id, role} entries a request body carries.
MaxListLen == 2

\* enum UserRole, enum GroupRole
UserRole == {"SUPER_ADMIN", "ADMIN", "USER"}
GroupRole == {"ADMIN", "MEMBER"}

\* A role string that z.enum(["MEMBER", "ADMIN"]) refuses.
BadRole == "OWNER"

\* The ids of the rows of table Probe.
ProbeIds == {"p1", "p2"}

VARIABLES
    users,          \* table User: id -> role, or Absent
    groups,         \* table Group: the ids of the rows
    groupUsers,     \* table GroupUser: rows [userId, groupId, role]
    servers,        \* table Server: rows [id, createdById, groups]
    configs,        \* table NotificationConfig: id -> [type, groupId], or Absent
    emailConfigs,   \* table EmailNotification: notificationConfigId -> recipients, or Absent
    webhookConfigs, \* table WebhookNotification: notificationConfigId -> url and payload, or Absent
    notifications,  \* the Notification records stored (the schema declares no such table)
    slot,           \* the requests to the notification routes that are being handled
    wire,           \* the last call of sendWebhook: its arguments and the body it posted
    pending,        \* the requests to the server, group and member routes that are being handled
    late,           \* the prisma.groupUser.create calls on their way whose handler has answered
    groupNames,     \* Group.name of the rows of table Group
    probes,         \* table Probe with HttpProbe and WebhookProbe: id -> ProbeRow, or NoProbe
    alertHistory,   \* table AlertHistory: the rows in the order of their creation
    outbox,         \* the send operations the status tracker has asked for, oldest first
    now             \* the number of probe results evaluated so far, the tracker's clock

dirVars == <<users, groups, groupUsers, servers>>
notifVars == <<configs, emailConfigs, webhookConfigs, notifications, slot>>
auxVars == <<wire, pending, late, groupNames>>
trackVars == <<probes, alertHistory, outbox, now>>
vars == <<users, groups, groupUsers, servers, configs, emailConfigs, webhookConfigs,
          notifications, slot, wire, pending, late, groupNames,
          probes, alertHistory, outbox, now>>

\* A row of table Probe with its sub-config row: the type, the server and
\* the groups of the probe, whether its HttpProbe or WebhookProbe row is
\* stored (configured), the expectations of the HTTP check (Absent when not
\* set) and the status last written.
ProbeRow(type, serverId, groupIds, configured, expectedStatus, expectedKeyword, status) ==
    [type |-> type, serverId |-> serverId, groups |-> groupIds,
     configured |-> configured, expectedStatus |-> expectedStatus,
     expectedKeyword |-> expectedKeyword, status |-> status]

\* The row missing
NoProbe == ProbeRow(Absent, Absent, {}, FALSE, Absent, Absent, Absent)

\* No probe exists and no result has been evaluated.
NoProbes ==
    /\ probes = [p \in ProbeIds |-> NoProbe]
    /\ alertHistory = <<>>
    /\ outbox = <<>>
    /\ now = 0

\* No Probe row is written, no probe result is evaluated and no send
\* operation of the tracker starts.
Untracked == UNCHANGED trackVars

(* ------------------------------------------------------- request inputs *)

\* The lists over S of at most n entries, one list for each multiset of
\* entries: the handlers give every entry of a list the same treatment
\* whatever its position, so the order of a list is not an input of its own.
Rank(S) == CHOOSE f \in [S -> 1..Cardinality(S)] : \A a, b \in S : a # b => f[a] # f[b]
SeqsUpTo(S, n) ==
    LET rank == Rank(S)
    IN  {l \in UNION {[1..k -> S] : k \in 0..n} :
            \A i, j \in DOMAIN l : i < j => rank[l[i]] <= rank[l[j]]}

\* body.groups of POST /api/users and PUT /api/users/[id]: [{id, role}]
GroupEntries == [id : GroupIds, role : GroupRole]
GroupLists == SeqsUpTo(GroupEntries, MaxListLen)

\* body.users of POST /api/groups/[id]/members: [{id, role}]
UserEntries == [id : UserIds, role : GroupRole]
UserLists == SeqsUpTo(UserEntries, MaxListLen)

\* An optional body field that the request leaves out.
Undefined == "UNDEFINED"

\* Who can send a request: nobody in particular, or a user with an account.
Callers == {NoUser} \cup {u \in UserIds : users[u] # Absent}

(* ------------------------------------------------------------- sessions *)

\* session.user.role of an authenticated caller: the role of the account.
SessionRole(caller) == users[caller]

(* ------------------------------------------------------- database calls *)

GroupUserRow(u, g, r) == [userId |-> u, groupId |-> g, role |-> r]

\* prisma.groupUser.findFirst({where: {groupId, userId}})
findMember(groupId, userId) ==
    {m \in groupUsers : m.groupId = groupId /\ m.userId = userId}

\* prisma.groupUser.findMany({where: {groupId, role: "ADMIN"}})
findAdmins(groupId) ==
    {m \in groupUsers : m.groupId = groupId /\ m.role = "ADMIN"}

\* No value
None == "-"

\* The id that a deleted row had: no row has it again.
Gone == "GONE"

(* --------------------------------------------------- notification engine *)

\* The NotificationConfig ids (uuid values) the database can hand out.
ConfigIds == {"c1"}

\* The server ids a send request can name; the Server table holds s1 only.
ServerIds == {"s1", "s2"}

\* The requests to the notification routes that can be in progress together.
Slots == {"r1", "r2"}

\* The requests to the configuration routes that can be in progress while
\* notifications are sent.
ConfigSlots == {"r1"}

\* enum NotificationChannelType
ChannelType == {"EMAIL", "WEBHOOK"}

\* config.recipients of an EMAIL body: two lists of addresses, none empty
Recipients == {"ra", "rb"}

\* config.url, headers and payload of a WEBHOOK body
Webhooks == {"wa"}

\* groupId: z.string().uuid(): the uuid values bodies name, those of the
\* groups a database holds
BodyGroupIds == {"g1", "g2"}

\* notificationSchema: the bodies z.discriminatedUnion("type", ...) accepts
notificationSchema ==
    [type : {"EMAIL"}, groupId : BodyGroupIds, config : Recipients]
        \cup [type : {"WEBHOOK"}, groupId : BodyGroupIds, config : Webhooks]

\* The bodies sent: the accepted ones, and bodies whose config does not go
\* with their type or is left out.
ConfigBodies ==
    [type : ChannelType, groupId : GroupIds,
     config : Recipients \cup Webhooks \cup {Undefined}]

NoBody == [type |-> None, groupId |-> None, config |-> None]

\* A NotificationConfig row, and the row missing
ConfigRow(type, groupId) == [type |-> type, groupId |-> groupId]
NoConfig == ConfigRow(Absent, Absent)

\* The NotificationConfig row of id `id`; NoConfig when no row has the id
configOf(id) == IF id \in DOMAIN configs THEN configs[id] ELSE NoConfig

NoSnapshot == [type |-> Absent, emailConfig |-> Absent, webhookConfig |-> Absent]

\* prisma.notificationConfig.findUnique({where: {id}, include: {emailConfig:
\* true, webhookConfig: true}}); type Absent stands for null
findConfig(id) ==
    IF configOf(id) = NoConfig THEN NoSnapshot
    ELSE [type |-> configs[id].type, emailConfig |-> emailConfigs[id],
          webhookConfig |-> webhookConfigs[id]]

\* The probe ids a send request can name; probeId is optional.
SentProbeIds == {"p1"}

\* A request to a notification route that is being handled: the handler
\* (op), the call it is waiting for (pc), session.user.id (caller) and
\* session.user.role (role), the id and body it still works with, its local
\* variables (serverId and probeId of a send body; groupId:
\* notification.groupId of the access check; existing: existingConfig or
\* notificationConfig), and when pc = "done" the response (status, error).
Request(op, pc, caller, id, body, existing) ==
    [op |-> op, pc |-> pc, caller |-> caller, role |-> None, id |-> id,
     serverId |-> None, probeId |-> None, groupId |-> None, body |-> body,
     existing |-> existing, status |-> 0, error |-> None]

IdleSlot == Request(None, "idle", None, None, NoBody, NoSnapshot)

\* const session = await getServerSession(authOptions): the request of
\* `caller` to route `op` with its session resolved
Asked(op, caller, id, body) ==
    [Request(op, "session", caller, id, body, NoSnapshot)
        EXCEPT !.role = IF caller = NoUser THEN None ELSE SessionRole(caller)]

\* NextResponse.json(body, {status}): the request keeps what it answered.
Response(r, status, error) ==
    [r EXCEPT !.pc = "done", !.serverId = None, !.probeId = None,
              !.groupId = None, !.body = NoBody, !.existing = NoSnapshot,
              !.status = status, !.error = error]

Respond(s, status, error) ==
    slot' = [slot EXCEPT ![s] = Response(@, status, error)]

Goto(s, pc) == slot' = [slot EXCEPT ![s].pc = pc]

\* The handler in slot s answers the request r it has just taken
Refuse(s, r, status, error) ==
    slot' = [slot EXCEPT ![s] = Response(r, status, error)]

\* The handler in slot s, having taken request r, awaits the database call pc
Proceed(s, r, pc) == slot' = [slot EXCEPT ![s] = [r EXCEPT !.pc = pc]]

\* What a request in progress holds once the User rows us, the Group rows gs
\* and the NotificationConfig rows cs are deleted: the ids it holds of those
\* rows are ids of no row, whatever rows are created later.
forgetRequest(r, us, gs, cs) ==
    LET group(g) == IF g \in gs THEN Gone ELSE g
    IN  IF r.pc \in {"idle", "done"} THEN r
        ELSE [r EXCEPT !.caller = IF @ \in us THEN Gone ELSE @,
                       !.id = IF @ \in cs THEN Gone ELSE @,
                       !.groupId = group(@),
                       !.body = [@ EXCEPT !.groupId = group(@)]]

\* The requests to the notification routes after a delete of the User rows
\* us, the Group rows gs and the NotificationConfig rows cs
Forgotten(us, gs, cs) ==
    slot' = [t \in Slots |-> forgetRequest(slot[t], us, gs, cs)]

\* The client has the response.
Return(s) ==
    /\ slot[s].pc = "done"
    /\ slot' = [slot EXCEPT ![s] = IdleSlot]
    /\ UNCHANGED <<dirVars, auxVars, configs, emailConfigs, webhookConfigs, notifications>>

(* ---- POST /api/notifications (creation of a configuration) *)

\* The handler up to its first database call: the session, then
\* notificationSchema.safeParse(body); isSuperAdmin makes checkGroupAccess
\* return without a database call
NotificationsPOST_session(s, caller, body) ==
    /\ slot[s].pc = "idle"
    /\ LET r == Asked("createConfig", caller, None, body)
       IN  IF caller = NoUser THEN Refuse(s, r, 401, "UNAUTHORIZED")
           ELSE IF body \notin notificationSchema THEN Refuse(s, r, 400, "INVALID_INPUT")
           ELSE IF r.role = "SUPER_ADMIN" THEN Proceed(s, r, "create")
           ELSE Proceed(s, r, "checkAccess")
    /\ UNCHANGED <<dirVars, auxVars, configs, emailConfigs, webhookConfigs, notifications>>

\* checkGroupAccess(userId, groupId, isSuperAdmin) of notifications/route.ts:
\* prisma.groupUser.findFirst({where: {userId, groupId}})
NotificationsPOST_access(s) ==
    /\ slot[s].op = "createConfig" /\ slot[s].pc = "checkAccess"
    /\ IF \E m \in groupUsers :
             m.userId = slot[s].caller /\ m.groupId = slot[s].body.groupId
       THEN Goto(s, "create")
       ELSE Respond(s, 403, "NO_GROUP_ACCESS")
    /\ UNCHANGED <<dirVars, auxVars, configs, emailConfigs, webhookConfigs, notifications>>

\* prisma.notificationConfig.create({data: {name, groupId, type}}): it
\* throws when the group has no row
NotificationsPOST_create(s) ==
    /\ slot[s].op = "createConfig" /\ slot[s].pc = "create"
    /\ LET body == slot[s].body
       IN  IF body.groupId \notin groups
           THEN /\ Respond(s, 500, "ERROR")
                /\ UNCHANGED configs
           ELSE \E id \in ConfigIds :
                   /\ configs[id] = NoConfig
                   /\ configs' = [configs EXCEPT ![id] = ConfigRow(body.type, body.groupId)]
                   /\ slot' = [slot EXCEPT ![s].id = id, ![s].pc = "createSub"]
    /\ UNCHANGED <<dirVars, auxVars, emailConfigs, webhookConfigs, notifications>>

\* prisma.emailNotification.create / prisma.webhookNotification.create
NotificationsPOST_createSub(s) ==
    /\ slot[s].op = "createConfig" /\ slot[s].pc = "createSub"
    /\ LET id == slot[s].id
           body == slot[s].body
       IN  IF body.type = "EMAIL"
           THEN IF configOf(id) = NoConfig \/ emailConfigs[id] # Absent
                THEN /\ Respond(s, 500, "ERROR")
                     /\ UNCHANGED <<emailConfigs, webhookConfigs>>
                ELSE /\ emailConfigs' = [emailConfigs EXCEPT ![id] = body.config]
                     /\ UNCHANGED webhookConfigs
                     /\ Goto(s, "reread")
           ELSE IF configOf(id) = NoConfig \/ webhookConfigs[id] # Absent
                THEN /\ Respond(s, 500, "ERROR")
                     /\ UNCHANGED <<emailConfigs, webhookConfigs>>
                ELSE /\ webhookConfigs' = [webhookConfigs EXCEPT ![id] = body.config]
                     /\ UNCHANGED emailConfigs
                     /\ Goto(s, "reread")
    /\ UNCHANGED <<dirVars, auxVars, configs, notifications>>

\* completeConfig = prisma.notificationConfig.findUnique(...), then the
\* response 201 with it
NotificationsPOST_reread(s) ==
    /\ slot[s].op = "createConfig" /\ slot[s].pc = "reread"
    /\ Respond(s, 201, None)
    /\ UNCHANGED <<dirVars, auxVars, configs, emailConfigs, webhookConfigs, notifications>>

(* ---- the access checks of notifications/[id]/route.ts *)

\* GET answering a caller without access as it answers a request for a
\* configuration that does not exist
NotificationGET_denied_hidden(s) == Respond(s, 404, "CONFIG_NOT_FOUND")

\* The response of GET to a caller checkNotificationAccess turns away
NotificationGET_denied(s) == Respond(s, 403, "NO_CONFIG_ACCESS")

\* The handler goes on after its access check returned true.
Granted(s) ==
    IF slot[s].op = "deleteConfig" THEN Goto(s, "delete")
    ELSE IF slot[s].op = "updateConfig" /\ slot[s].body \notin notificationSchema
    THEN Respond(s, 400, "INVALID_INPUT")
    ELSE Goto(s, "find")

\* The handler answers after its access check returned false.
Denied(s) ==
    IF slot[s].op = "getConfig" THEN NotificationGET_denied(s)
    ELSE Respond(s, 403, "NOT_GROUP_ADMIN")

\* checkNotificationAccess and checkGroupAdminAccess: notification =
\* prisma.notificationConfig.findUnique({where: {id: notificationId},
\* select: {groupId: true}}); false when there is none
checkAccess_config(s) ==
    /\ slot[s].op \in {"getConfig", "updateConfig", "deleteConfig"}
    /\ slot[s].pc = "accessConfig"
    /\ IF configOf(slot[s].id) = NoConfig
       THEN Denied(s)
       ELSE slot' = [slot EXCEPT ![s].groupId = configs[slot[s].id].groupId,
                                 ![s].pc = "accessMember"]
    /\ UNCHANGED <<dirVars, auxVars, configs, emailConfigs, webhookConfigs, notifications>>

\* the where clause of checkGroupAdminAccess without role: "ADMIN"
checkGroupAdminAccess_anyRole(m, userId, groupId) ==
    m.userId = userId /\ m.groupId = groupId

\* checkGroupAdminAccess: where: {userId, groupId: notification.groupId,
\* role: "ADMIN"}
checkGroupAdminAccess(m, userId, groupId) ==
    m.userId = userId /\ m.groupId = groupId /\ m.role = "ADMIN"

\* checkNotificationAccess: where: {userId, groupId: notification.groupId}
checkNotificationAccess(m, userId, groupId) ==
    m.userId = userId /\ m.groupId = groupId

\* checkNotificationAccess: prisma.groupUser.findFirst(...), !!groupUser
checkNotificationAccess_groupUser(s) ==
    /\ slot[s].op = "getConfig" /\ slot[s].pc = "accessMember"
    /\ IF \E m \in groupUsers : checkNotificationAccess(m, slot[s].caller, slot[s].groupId)
       THEN Granted(s)
       ELSE Denied(s)
    /\ UNCHANGED <<dirVars, auxVars, configs, emailConfigs, webhookConfigs, notifications>>

\* checkGroupAdminAccess: prisma.groupUser.findFirst(...), !!groupUser
checkGroupAdminAccess_groupUser(s) ==
    /\ slot[s].op \in {"updateConfig", "deleteConfig"} /\ slot[s].pc = "accessMember"
    /\ IF \E m \in groupUsers : checkGroupAdminAccess(m, slot[s].caller, slot[s].groupId)
       THEN Granted(s)
       ELSE Denied(s)
    /\ UNCHANGED <<dirVars, auxVars, configs, emailConfigs, webhookConfigs, notifications>>

\* The session of a request to notifications/[id]; isSuperAdmin makes the
\* access check return true without a database call
ById_session(s, op, caller, id, body) ==
    /\ slot[s].pc = "idle"
    /\ LET r == Asked(op, caller, id, body)
       IN  IF caller = NoUser THEN Refuse(s, r, 401, "UNAUTHORIZED")
           ELSE IF r.role # "SUPER_ADMIN" THEN Proceed(s, r, "accessConfig")
           ELSE IF op = "deleteConfig" THEN Proceed(s, r, "delete")
           ELSE IF op = "updateConfig" /\ body \notin notificationSchema
           THEN Refuse(s, r, 400, "INVALID_INPUT")
           ELSE Proceed(s, r, "find")
    /\ UNCHANGED <<dirVars, auxVars, configs, emailConfigs, webhookConfigs, notifications>>

(* ---- GET /api/notifications/[id] *)

NotificationGET_session(s, caller, id) == ById_session(s, "getConfig", caller, id, NoBody)

\* notification = prisma.notificationConfig.findUnique(...), then 404 or
\* the response with it
NotificationGET_find(s) ==
    /\ slot[s].op = "getConfig" /\ slot[s].pc = "find"
    /\ IF findConfig(slot[s].id).type = Absent
       THEN Respond(s, 404, "CONFIG_NOT_FOUND")
       ELSE Respond(s, 200, None)
    /\ UNCHANGED <<dirVars, auxVars, configs, emailConfigs, webhookConfigs, notifications>>

(* ---- PUT /api/notifications/[id] (update of a configuration) *)

NotificationPUT_session(s, caller, id, body) ==
    ById_session(s, "updateConfig", caller, id, body)

\* existingConfig = prisma.notificationConfig.findUnique(...), 404 without it
NotificationPUT_find(s) ==
    /\ slot[s].op = "updateConfig" /\ slot[s].pc = "find"
    /\ LET existingConfig == findConfig(slot[s].id)
       IN  IF existingConfig.type = Absent
           THEN Respond(s, 404, "CONFIG_NOT_FOUND")
           ELSE slot' = [slot EXCEPT ![s].existing = existingConfig, ![s].pc = "update"]
    /\ UNCHANGED <<dirVars, auxVars, configs, emailConfigs, webhookConfigs, notifications>>

\* afterUpdate that leaves the sub-config of the former type in place
afterUpdate_keepOld(body, existingConfig) == "upsert"

\* The call that follows prisma.notificationConfig.update in the handler
\* whose body is `body` and whose existingConfig is `existingConfig`
afterUpdate(body, existingConfig) ==
    IF body.type = "EMAIL"
    THEN IF existingConfig.type = "WEBHOOK" /\ existingConfig.webhookConfig # Absent
         THEN "deleteOld" ELSE "upsert"
    ELSE IF existingConfig.type = "EMAIL" /\ existingConfig.emailConfig # Absent
         THEN "deleteOld" ELSE "upsert"

\* prisma.notificationConfig.update({where: {id}, data: {name, groupId, type}})
NotificationPUT_update(s) ==
    /\ slot[s].op = "updateConfig" /\ slot[s].pc = "update"
    /\ LET id == slot[s].id
           body == slot[s].body
       IN  IF configOf(id) = NoConfig \/ body.groupId \notin groups
           THEN /\ Respond(s, 500, "ERROR")
                /\ UNCHANGED configs
           ELSE /\ configs' = [configs EXCEPT ![id] = ConfigRow(body.type, body.groupId)]
                /\ Goto(s, afterUpdate(body, slot[s].existing))
    /\ UNCHANGED <<dirVars, auxVars, emailConfigs, webhookConfigs, notifications>>

\* prisma.webhookNotification.delete / prisma.emailNotification.delete of the
\* sub-config of the type the configuration had: it throws when the row is
\* not there any more
NotificationPUT_deleteOld(s) ==
    /\ slot[s].op = "updateConfig" /\ slot[s].pc = "deleteOld"
    /\ LET id == slot[s].id
       IN  IF slot[s].body.type = "EMAIL"
           THEN IF configOf(id) = NoConfig \/ webhookConfigs[id] = Absent
                THEN /\ Respond(s, 500, "ERROR")
                     /\ UNCHANGED <<emailConfigs, webhookConfigs>>
                ELSE /\ webhookConfigs' = [webhookConfigs EXCEPT ![id] = Absent]
                     /\ UNCHANGED emailConfigs
                     /\ Goto(s, "upsert")
           ELSE IF configOf(id) = NoConfig \/ emailConfigs[id] = Absent
                THEN /\ Respond(s, 500, "ERROR")
                     /\ UNCHANGED <<emailConfigs, webhookConfigs>>
                ELSE /\ emailConfigs' = [emailConfigs EXCEPT ![id] = Absent]
                     /\ UNCHANGED webhookConfigs
                     /\ Goto(s, "upsert")
    /\ UNCHANGED <<dirVars, auxVars, configs, notifications>>

\* The sub-config of the new type: update when existingConfig had one (it
\* throws when the row is not there any more), create otherwise (it throws
\* on @unique notificationConfigId when a row is there)
NotificationPUT_upsert(s) ==
    /\ slot[s].op = "updateConfig" /\ slot[s].pc = "upsert"
    /\ LET id == slot[s].id
           body == slot[s].body
           existingConfig == slot[s].existing
       IN  IF configOf(id) = NoConfig
           THEN /\ Respond(s, 500, "ERROR")
                /\ UNCHANGED <<emailConfigs, webhookConfigs>>
           ELSE IF body.type = "EMAIL"
           THEN IF (existingConfig.emailConfig # Absent) = (emailConfigs[id] # Absent)
                THEN /\ emailConfigs' = [emailConfigs EXCEPT ![id] = body.config]
                     /\ UNCHANGED webhookConfigs
                     /\ Goto(s, "reread")
                ELSE /\ Respond(s, 500, "ERROR")
                     /\ UNCHANGED <<emailConfigs, webhookConfigs>>
           ELSE IF (existingConfig.webhookConfig # Absent) = (webhookConfigs[id] # Absent)
                THEN /\ webhookConfigs' = [webhookConfigs EXCEPT ![id] = body.config]
                     /\ UNCHANGED emailConfigs
                     /\ Goto(s, "reread")
                ELSE /\ Respond(s, 500, "ERROR")
                     /\ UNCHANGED <<emailConfigs, webhookConfigs>>
    /\ UNCHANGED <<dirVars, auxVars, configs, notifications>>

\* updatedConfig = prisma.notificationConfig.findUnique(...), then the
\* response with it
NotificationPUT_reread(s) ==
    /\ slot[s].op = "updateConfig" /\ slot[s].pc = "reread"
    /\ Respond(s, 200, None)
    /\ UNCHANGED <<dirVars, auxVars, configs, emailConfigs, webhookConfigs, notifications>>

(* ---- DELETE /api/notifications/[id] *)

NotificationDELETE_session(s, caller, id) ==
    ById_session(s, "deleteConfig", caller, id, NoBody)

\* prisma.notificationConfig.delete({where: {id}}), which throws when the
\* row is not in its table; the sub-configurations are onDelete: Cascade
NotificationDELETE_delete(s) ==
    /\ slot[s].op = "deleteConfig"
    /\ slot[s].pc = "delete"
    /\ LET id == slot[s].id
       IN  IF configOf(id) # NoConfig
           THEN /\ configs' = [configs EXCEPT ![id] = NoConfig]
                /\ emailConfigs' = [emailConfigs EXCEPT ![id] = Absent]
                /\ webhookConfigs' = [webhookConfigs EXCEPT ![id] = Absent]
                /\ slot' = [t \in Slots |->
                              IF t = s THEN Response(slot[s], 200, None)
                              ELSE forgetRequest(slot[t], {}, {}, {id})]
           ELSE /\ Respond(s, 500, "ERROR")
                /\ UNCHANGED <<configs, emailConfigs, webhookConfigs>>
    /\ UNCHANGED <<dirVars, auxVars, notifications>>

(* ---- POST /api/notifications/send (dispatch) *)

\* SendPOST_findConfig that goes on with a configuration it did not find
SendPOST_findConfig_unchecked(s, caller, valid, id, serverId, probeId) ==
    /\ slot[s].pc = "idle"
    /\ LET notificationConfig == findConfig(id)
           r == [Request("send", "findConfig", caller, id, NoBody, notificationConfig)
                    EXCEPT !.serverId = serverId, !.probeId = probeId]
       IN  IF ~ valid THEN Refuse(s, r, 400, "INVALID_INPUT")
           ELSE Proceed(s, r, "findServer")
    /\ UNCHANGED <<dirVars, auxVars, configs, emailConfigs, webhookConfigs, notifications>>

\* The handler up to its first database call: sendNotificationSchema
\* .safeParse(body) (`valid` is its success), then notificationConfig =
\* prisma.notificationConfig.findUnique(...).  The handler reads no
\* session: the caller is kept only to tell who asked.
SendPOST_findConfig(s, caller, valid, id, serverId, probeId) ==
    /\ slot[s].pc = "idle"
    /\ LET notificationConfig == findConfig(id)
           r == [Request("send", "findConfig", caller, id, NoBody, notificationConfig)
                    EXCEPT !.serverId = serverId, !.probeId = probeId]
       IN  IF ~ valid THEN Refuse(s, r, 400, "INVALID_INPUT")
           ELSE IF notificationConfig.type = Absent
           THEN Refuse(s, r, 404, "CONFIG_NOT_FOUND")
           ELSE Proceed(s, r, "findServer")
    /\ UNCHANGED <<dirVars, auxVars, configs, emailConfigs, webhookConfigs, notifications>>

\* server = prisma.server.findUnique({where: {id: serverId}}), 404 without
\* it; with it the handler goes on to the probe when the body names one
SendPOST_findServer(s) ==
    /\ slot[s].op = "send" /\ slot[s].pc = "findServer"
    /\ IF \E sv \in servers : sv.id = slot[s].serverId
       THEN Goto(s, IF slot[s].probeId = Undefined THEN "create" ELSE "findProbe")
       ELSE Respond(s, 404, "SERVER_NOT_FOUND")
    /\ UNCHANGED <<dirVars, auxVars, configs, emailConfigs, webhookConfigs, notifications>>

\* probe = prisma.probe.findUnique({where: {id: probeId}}): the row or
\* null, of which notificationData takes probe?.name and probe?.id
SendPOST_findProbe(s) ==
    /\ slot[s].op = "send" /\ slot[s].pc = "findProbe"
    /\ Goto(s, "create")
    /\ UNCHANGED <<dirVars, auxVars, configs, emailConfigs, webhookConfigs, notifications>>

\* SendPOST_create on a client that has the table: the record is stored and
\* the request answered
SendPOST_create_stored(s) ==
    /\ slot[s].op = "send" /\ slot[s].pc = "create"
    /\ notifications' = Append(notifications,
                               [notificationConfigId |-> slot[s].id,
                                serverId |-> slot[s].serverId,
                                probeId |-> slot[s].probeId])
    /\ Respond(s, 200, None)
    /\ UNCHANGED <<dirVars, auxVars, configs, emailConfigs, webhookConfigs>>

\* notification = prisma.notification.create(...): schema.prisma declares
\* no model Notification, so the client has no prisma.notification and the
\* call throws a TypeError; the catch of the handler answers 500.  No row
\* is stored, and the channel adapters and the updates that follow the
\* create are not reached.
SendPOST_create(s) ==
    /\ slot[s].op = "send" /\ slot[s].pc = "create"
    /\ Respond(s, 500, "ERROR")
    /\ UNCHANGED <<dirVars, auxVars, configs, emailConfigs, webhookConfigs, notifications>>

(* ---------------------------------------------------------- webhook adapter *)

\* Keys of a JSON object: the keys title and probeName are fields of
\* notificationData, channel is not.
PayloadKeys == {"title", "probeName", "channel"}
PayloadValues == {"x", "y"}

\* A JSON object: its keys and their values
Objects == UNION {[K -> PayloadValues] : K \in SUBSET PayloadKeys}

\* webhookConfig.payload || {}: the stored templates (null gives {})
Templates == Objects

\* notificationData: title is always a string; probeName is probe?.name,
\* undefined when the request names no probe
Events == [title : PayloadValues, probeName : PayloadValues \cup {Undefined}]

\* spread keeping the first object on a key of both
spread_templateFirst(a, b) ==
    [k \in DOMAIN a \cup DOMAIN b |-> IF k \in DOMAIN a THEN a[k] ELSE b[k]]

\* {...a, ...b}: the own keys of a, then those of b over them
spread(a, b) ==
    [k \in DOMAIN a \cup DOMAIN b |-> IF k \in DOMAIN b THEN b[k] ELSE a[k]]

\* JSON.parse(JSON.stringify(o)): a key whose value is undefined is left out
stringify(o) ==
    [k \in {x \in DOMAIN o : o[x] # Undefined} |-> o[k]]

\* A call of sendWebhook: its arguments, the body it posted, where the call
\* stands (pc: "fetch" while it awaits fetch, "settled" when fetch has
\* settled, "json" while it awaits response.json(), "returned" or "thrown"
\* when the call is over) and how fetch settled (outcome).  NoWire: no webhook was posted.
Wire(payloadTemplate, notificationData, payload, pc, outcome) ==
    [template |-> payloadTemplate, event |-> notificationData, payload |-> payload,
     pc |-> pc, outcome |-> outcome]
NoWire == Wire(<<>>, <<>>, <<>>, "idle", None)

\* How the promise of fetch settles: a response with response.ok, a
\* response without it, or a rejection (no connection, aborted)
FetchOutcomes == {"ok", "notOk", "rejected"}

\* sendWebhook(url, headers, payloadTemplate, notificationData) up to
\* await fetch(...): the body of the POST is
\* JSON.stringify({...payloadTemplate, ...notificationData})
sendWebhook(payloadTemplate, notificationData) ==
    /\ wire.pc \in {"idle", "returned", "thrown"}
    /\ wire' = Wire(payloadTemplate, notificationData,
                    stringify(spread(payloadTemplate, notificationData)), "fetch", None)
    /\ UNCHANGED <<dirVars, notifVars, pending, late, groupNames>>

\* The endpoint answers, or the connection fails: the promise of fetch
\* settles.  fetch is called without signal or timeout, so nothing on the
\* side of sendWebhook makes this happen.
fetch_settles(outcome) ==
    /\ wire.pc = "fetch"
    /\ wire' = [wire EXCEPT !.pc = "settled", !.outcome = outcome]
    /\ UNCHANGED <<dirVars, notifVars, pending, late, groupNames>>

\* sendWebhook after await fetch: the rejection is thrown on, a response
\* that is not ok throws the Error, and of an ok response the function
\* awaits response.json().
sendWebhook_resume ==
    /\ wire.pc = "settled"
    /\ wire' = [wire EXCEPT !.pc = IF wire.outcome = "ok" THEN "json" ELSE "thrown"]
    /\ UNCHANGED <<dirVars, notifVars, pending, late, groupNames>>

\* return await response.json(): the body of the ok response parses as JSON
\* and sendWebhook returns it, or it does not (a body that is empty or not
\* JSON) and the rejection is thrown on.
sendWebhook_json(parses) ==
    /\ wire.pc = "json"
    /\ wire' = [wire EXCEPT !.pc = IF parses THEN "returned" ELSE "thrown"]
    /\ UNCHANGED <<dirVars, notifVars, pending, late, groupNames>>

(* ------------------------------------------- server, group and member calls *)

\* The group ids of the database: prisma.group.create gives a new row the
\* first of them that no row has.
GroupOrder == <<"g1", "g2">>
ServerGroups == {GroupOrder[i] : i \in DOMAIN GroupOrder}

\* Group.name: the name the groups are created with, and the name an update
\* gives
DefaultName == "n0"
NewName == "n1"

\* No GroupUser row
NoMember == GroupUserRow(None, None, None)

\* A request to a directory, server, group or member route that is being
\* handled: the route (op), the database call its handler makes next (pc),
\* session.user.id (caller) and session.user.role (role), the group and the
\* user the URL names (groupId, userId; userId is also the id of the User
\* row the handler created), body.email, body.role or finalRole (newRole),
\* body.name, the group ids the handler holds (body.groups,
\* authorizedGroups, groupIds), whether body.groups is given (hasGroups),
\* isFirstUser, the GroupUser rows that body.users or body.groups asks for
\* (list), the GroupUser row the handler found (member), the
\* prisma.groupUser.create calls started that have not reached the database
\* (rows) and whether one was refused (failed), and the response: status,
\* error, and the ids of the servers the body lists; for the probes route
\* the server the URL names (serverId), the groups checkServerAccess found
\* it in (serverGroupIds), body.type with body.config (config)
\* and the id of the Probe row the handler created (probeId).
Call(op, pc, caller, groupId, groupIds, rows, failed) ==
    [op |-> op, pc |-> pc, caller |-> caller, role |-> None,
     groupId |-> groupId, userId |-> None, email |-> None, newRole |-> None,
     name |-> None, groupIds |-> groupIds, hasGroups |-> FALSE,
     isFirstUser |-> FALSE, list |-> <<>>, member |-> NoMember, rows |-> rows,
     failed |-> failed, status |-> 0, error |-> None, servers |-> {},
     serverId |-> None, serverGroupIds |-> {}, config |-> None, probeId |-> None]

NoCall == Call(None, "idle", None, None, {}, <<>>, FALSE)

\* const session = await getServerSession(authOptions): the request of
\* `caller` to route `op` with its session resolved
Session(op, caller) ==
    [Call(op, "session", caller, None, {}, <<>>, FALSE)
        EXCEPT !.role = IF caller = NoUser THEN None ELSE SessionRole(caller)]

\* NextResponse.json(body, {status}) to the request `call`: the handler
\* returns, and what it held for its own use is gone with it
Replied(call, status, error) ==
    [call EXCEPT !.pc = "done", !.status = status, !.error = error,
                 !.name = None, !.member = NoMember, !.groupIds = {},
                 !.hasGroups = FALSE, !.isFirstUser = FALSE,
                 !.serverId = None, !.serverGroupIds = {}, !.config = None]

\* The handler in slot s answers the request `call`.
Reply(s, call, status, error) ==
    pending' = [pending EXCEPT ![s] = Replied(call, status, error)]

\* The handler in slot s, holding `call`, awaits the database call pc.
Await(s, call, pc) ==
    pending' = [pending EXCEPT ![s] = [call EXCEPT !.pc = pc]]

\* The GroupUser rows rs that create calls carry once the User rows us and
\* the Group rows gs are deleted: the ids of those rows are ids of no row,
\* whatever rows are created later.
forgetRows(rs, us, gs) ==
    [i \in DOMAIN rs |->
        GroupUserRow(IF rs[i].userId \in us THEN Gone ELSE rs[i].userId,
                     IF rs[i].groupId \in gs THEN Gone ELSE rs[i].groupId,
                     rs[i].role)]

\* What a request in progress holds once the User rows us, the Group rows gs
\* and the GroupUser rows of keys ms are deleted: the ids it holds of those
\* rows are ids of no row, whatever rows are created later.
forget(call, us, gs, ms) ==
    LET user(u) == IF u \in us THEN Gone ELSE u
        group(g) == IF g \in gs THEN Gone ELSE g
        member == IF <<call.member.userId, call.member.groupId>> \in ms
                  THEN GroupUserRow(Gone, Gone, call.member.role)
                  ELSE call.member
    IN  IF call.pc = "done"
        THEN call
        ELSE [call EXCEPT !.caller = user(@), !.userId = user(@),
                          !.groupId = group(@),
                          !.groupIds = {group(g) : g \in @},
                          !.serverGroupIds = {group(g) : g \in @},
                          !.list = forgetRows(@, us, gs),
                          !.rows = forgetRows(@, us, gs), !.member = member]

\* The handler in slot s goes on as `call` after a delete of the User rows
\* us, the Group rows gs and the GroupUser rows of keys ms.
Forgetting(s, call, us, gs, ms) ==
    /\ pending' = [t \in Slots |->
                     IF t = s THEN call ELSE forget(pending[t], us, gs, ms)]
    /\ late' = forgetRows(late, us, gs)

\* The client of slot s receives the response.
Receive(s) ==
    /\ pending[s].pc = "done"
    /\ pending' = [pending EXCEPT ![s] = NoCall]
    /\ UNCHANGED <<dirVars, notifVars, wire, late, groupNames>>

\* prisma.user.findUnique({where: {id: userId}, select: {role: true}}):
\* user?.role, Absent when no row has the id
roleOf(userId) == IF userId \in UserIds THEN users[userId] ELSE Absent

\* The keys of the GroupUser rows of user userId, and of group groupId
keysOfUser(userId) == {<<m.userId, m.groupId>> : m \in {x \in groupUsers : x.userId = userId}}
keysOfGroup(groupId) == {<<m.userId, m.groupId>> : m \in {x \in groupUsers : x.groupId = groupId}}

(* ----------------------------------------------------- Promise.all creates *)

\* The sequence without its i-th element.
RemoveAt(seq, i) ==
    [j \in 1..(Len(seq) - 1) |-> IF j < i THEN seq[j] ELSE seq[j + 1]]

\* prisma.groupUser.create goes through without @@unique([userId, groupId])
canCreate_noUnique(row) ==
    /\ roleOf(row.userId) # Absent
    /\ row.groupId \in groups

\* prisma.groupUser.create({data: row}) goes through: the foreign keys
\* user and group have their rows, and @@unique([userId, groupId]) holds
canCreate(row) ==
    /\ roleOf(row.userId) # Absent
    /\ row.groupId \in groups
    /\ ~ \E m \in groupUsers : m.userId = row.userId /\ m.groupId = row.groupId

\* One of the prisma.groupUser.create calls that the handler in slot s
\* started under Promise.all reaches the database: the i-th of those that
\* have not yet.
createOne(s, i) ==
    /\ pending[s].pc = "create"
    /\ i \in DOMAIN pending[s].rows
    /\ LET row == pending[s].rows[i]
       IN  IF canCreate(row)
           THEN /\ groupUsers' = groupUsers \cup {row}
                /\ pending' = [pending EXCEPT ![s].rows = RemoveAt(@, i)]
           ELSE /\ UNCHANGED groupUsers
                /\ pending' = [pending EXCEPT ![s].rows = RemoveAt(@, i),
                                              ![s].failed = TRUE]
    /\ UNCHANGED <<users, groups, servers, notifVars, wire, late, groupNames>>

\* await Promise.all(...) returns, and the handler answers `status`, or it
\* throws on the first refused create and the catch block answers 500: the
\* creates still on their way go on without the handler.
allSettled(s, status) ==
    /\ pending[s].pc = "create"
    /\ IF pending[s].failed
       THEN /\ Reply(s, [pending[s] EXCEPT !.rows = <<>>], 500, "ERROR")
            /\ late' = late \o pending[s].rows
       ELSE /\ pending[s].rows = <<>>
            /\ Reply(s, pending[s], status, None)
            /\ UNCHANGED late
    /\ UNCHANGED <<dirVars, notifVars, wire, groupNames>>

\* A prisma.groupUser.create call whose handler has answered reaches the
\* database: the i-th of those on their way.  Nobody awaits its result.
lateCreate(i) ==
    /\ i \in DOMAIN late
    /\ groupUsers' = IF canCreate(late[i]) THEN groupUsers \cup {late[i]} ELSE groupUsers
    /\ late' = RemoveAt(late, i)
    /\ UNCHANGED <<users, groups, servers, notifVars, wire, pending, groupNames>>

(* ------------------------------------------------------------ server API *)

\* serverSchema, groups: the group lists a body carries, as sets of ids; the
\* empty list is refused (min(1)).
GroupIdLists == SUBSET ServerGroups

\* where: {groups: {some: {id: {in: groupIds}}}} that holds of a server
\* none of whose groups is outside groupIds
someGroupIn_every(sv, groupIds) == sv.groups \subseteq groupIds

\* where: {groups: {some: {id: {in: groupIds}}}}
someGroupIn(sv, groupIds) == sv.groups \cap groupIds # {}

\* GET /api/servers: the session
ServersGET_session(s, caller) ==
    /\ pending[s].pc = "idle"
    /\ LET call == Session("listServers", caller)
       IN  IF caller = NoUser THEN Reply(s, call, 401, "UNAUTHORIZED")
           ELSE IF call.role = "SUPER_ADMIN" THEN Await(s, call, "findAll")
           ELSE Await(s, call, "findGroups")
    /\ UNCHANGED <<dirVars, notifVars, wire, late, groupNames>>

\* GET /api/servers of a SUPER_ADMIN: prisma.server.findMany({}) and the
\* response
ServersGET_all(s) ==
    /\ pending[s].op = "listServers"
    /\ pending[s].pc = "findAll"
    /\ Reply(s, [pending[s] EXCEPT !.servers = {sv.id : sv \in servers}], 200, None)
    /\ UNCHANGED <<dirVars, notifVars, wire, late, groupNames>>

\* GET /api/servers: prisma.groupUser.findMany({where: {userId}})
ServersGET_groups(s) ==
    /\ pending[s].op = "listServers"
    /\ pending[s].pc = "findGroups"
    /\ LET userGroups == {m \in groupUsers : m.userId = pending[s].caller}
           groupIds == {ug.groupId : ug \in userGroups}
       IN  Await(s, [pending[s] EXCEPT !.groupIds = groupIds], "findServers")
    /\ UNCHANGED <<dirVars, notifVars, wire, late, groupNames>>

\* GET /api/servers: prisma.server.findMany({where: {groups: {some: ...}}})
\* and the response
ServersGET_servers(s) ==
    /\ pending[s].op = "listServers"
    /\ pending[s].pc = "findServers"
    /\ Reply(s, [pending[s] EXCEPT !.servers =
                   {sv.id : sv \in {x \in servers : someGroupIn(x, pending[s].groupIds)}}],
             200, None)
    /\ UNCHANGED <<dirVars, notifVars, wire, late, groupNames>>

\* The server creations in progress.
Creating == {s \in Slots : pending[s].op = "createServer" /\ pending[s].pc # "done"}

\* POST /api/servers: the session and serverSchema.  A request is taken
\* when an id is left for its row.
ServersPOST_session(s, caller, bodyGroups) ==
    /\ pending[s].pc = "idle"
    /\ Cardinality(servers) + Cardinality(Creating) < Cardinality(ServerIds)
    /\ LET call == [Session("createServer", caller) EXCEPT !.groupIds = bodyGroups]
       IN  IF caller = NoUser THEN Reply(s, call, 401, "UNAUTHORIZED")
           ELSE IF bodyGroups = {} THEN Reply(s, call, 400, "INVALID_INPUT")
           ELSE Await(s, call, "findGroups")
    /\ UNCHANGED <<dirVars, notifVars, wire, late, groupNames>>

\* POST /api/servers:
\* prisma.groupUser.findMany({where: {userId, groupId: {in: groups}}}) and
\* the check of the groups asked for
ServersPOST_check(s) ==
    /\ pending[s].op = "createServer"
    /\ pending[s].pc = "findGroups"
    /\ LET call == pending[s]
           userGroups == {m \in groupUsers :
                            m.userId = call.caller /\ m.groupId \in call.groupIds}
           accessibleGroupIds == {ug.groupId : ug \in userGroups}
           unauthorizedGroups == call.groupIds \ accessibleGroupIds
       IN  IF call.role # "SUPER_ADMIN"
           THEN IF unauthorizedGroups # {}
                THEN Reply(s, call, 403, "GROUPS_NOT_ACCESSIBLE")
                ELSE Await(s, [call EXCEPT !.groupIds = accessibleGroupIds], "create")
           ELSE Await(s, call, "create")
    /\ UNCHANGED <<dirVars, notifVars, wire, late, groupNames>>

\* POST /api/servers: prisma.server.create({data: {createdById, groups:
\* {connect: authorizedGroups}}}); the create throws on a createdById
\* without its User row, connect throws on a group that is not in its
\* table, and then no row is written
ServersPOST_create(s) ==
    /\ pending[s].op = "createServer"
    /\ pending[s].pc = "create"
    /\ IF roleOf(pending[s].caller) # Absent /\ pending[s].groupIds \subseteq groups
       THEN \E id \in ServerIds \ {sv.id : sv \in servers} :
              /\ servers' = servers \cup {[id |-> id, createdById |-> pending[s].caller,
                                           groups |-> pending[s].groupIds]}
              /\ Reply(s, [pending[s] EXCEPT !.servers = {id}], 201, None)
       ELSE /\ Reply(s, pending[s], 500, "ERROR")
            /\ UNCHANGED servers
    /\ UNCHANGED <<users, groups, groupUsers, notifVars, wire, late, groupNames>>

(* ---------------------------------------------------------- registration *)

\* The id of the row that prisma.group.create makes
newGroupId ==
    GroupOrder[CHOOSE i \in DOMAIN GroupOrder :
                 /\ GroupOrder[i] \notin groups
                 /\ \A j \in 1..(i - 1) : GroupOrder[j] \in groups]

\* POST /api/auth/register: registerSchema and
\* prisma.user.findUnique({where: {email}})
Register_find(s, email) ==
    /\ pending[s].pc = "idle"
    /\ LET call == [Call("register", "find", NoUser, None, {}, <<>>, FALSE)
                       EXCEPT !.email = email]
       IN  IF users[email] # Absent
           THEN Reply(s, call, 409, "EMAIL_IN_USE")
           ELSE Await(s, call, "count")
    /\ UNCHANGED <<dirVars, notifVars, wire, late, groupNames>>

\* POST /api/auth/register: bcrypt.hash and prisma.user.count()
Register_count(s) ==
    /\ pending[s].op = "register"
    /\ pending[s].pc = "count"
    /\ LET userCount == Cardinality({u \in UserIds : users[u] # Absent})
           isFirstUser == userCount = 0
       IN  Await(s, [pending[s] EXCEPT !.isFirstUser = isFirstUser], "createUser")
    /\ UNCHANGED <<dirVars, notifVars, wire, late, groupNames>>

\* role: isFirstUser ? "SUPER_ADMIN" : "USER"
Register_role(isFirstUser) == IF isFirstUser THEN "SUPER_ADMIN" ELSE "USER"

\* POST /api/auth/register: prisma.user.create({data: {email, role}}),
\* which throws on an e-mail that a row has (User.email is @unique); the
\* response when the user is not the first
Register_createUser(s) ==
    /\ pending[s].op = "register"
    /\ pending[s].pc = "createUser"
    /\ LET call == pending[s]
       IN  IF users[call.email] # Absent
           THEN /\ Reply(s, call, 500, "ERROR")
                /\ UNCHANGED users
           ELSE /\ users' = [users EXCEPT ![call.email] = Register_role(call.isFirstUser)]
                /\ IF call.isFirstUser
                   THEN Await(s, [call EXCEPT !.userId = call.email], "createGroup")
                   ELSE Reply(s, [call EXCEPT !.userId = call.email], 201, None)
    /\ UNCHANGED <<groups, groupUsers, servers, notifVars, wire, late, groupNames>>

\* POST /api/auth/register: prisma.group.create({data: {name: "Groupe
\* principal"}}), when the table has room for a row
Register_createGroup(s) ==
    /\ pending[s].op = "register"
    /\ pending[s].pc = "createGroup"
    /\ ServerGroups \ groups # {}
    /\ groups' = groups \cup {newGroupId}
    /\ groupNames' = [groupNames EXCEPT ![newGroupId] = DefaultName]
    /\ Await(s, [pending[s] EXCEPT !.groupId = newGroupId], "createMember")
    /\ UNCHANGED <<users, groupUsers, servers, notifVars, wire, late>>

\* POST /api/auth/register: prisma.groupUser.create({data: {userId:
\* user.id, groupId: defaultGroup.id, role: "ADMIN"}}) and the response
Register_createMember(s) ==
    /\ pending[s].op = "register"
    /\ pending[s].pc = "createMember"
    /\ LET row == GroupUserRow(pending[s].userId, pending[s].groupId, "ADMIN")
       IN  IF canCreate(row)
           THEN /\ groupUsers' = groupUsers \cup {row}
                /\ Reply(s, pending[s], 201, None)
           ELSE /\ UNCHANGED groupUsers
                /\ Reply(s, pending[s], 500, "ERROR")
    /\ UNCHANGED <<users, groups, servers, notifVars, wire, late, groupNames>>

(* -------------------------------------------------------- POST /api/groups *)

\* groupSchema, name: a name, the empty string (refused), or no name
\* (refused)
GroupNameInputs == {NewName, "", Undefined}

\* POST /api/groups: the session, the role and groupSchema
GroupsPOST_session(s, caller, name) ==
    /\ pending[s].pc = "idle"
    /\ LET call == [Session("createGroup", caller) EXCEPT !.name = name]
       IN  IF caller = NoUser THEN Reply(s, call, 401, "UNAUTHORIZED")
           ELSE IF call.role \notin {"SUPER_ADMIN", "ADMIN"}
           THEN Reply(s, call, 403, "FORBIDDEN")
           ELSE IF name \in {"", Undefined} THEN Reply(s, call, 400, "INVALID_INPUT")
           ELSE Await(s, call, "createGroup")
    /\ UNCHANGED <<dirVars, notifVars, wire, late, groupNames>>

\* POST /api/groups: prisma.group.create({data: {name, description}}),
\* when the table has room for a row
GroupsPOST_createGroup(s) ==
    /\ pending[s].op = "createGroup"
    /\ pending[s].pc = "createGroup"
    /\ ServerGroups \ groups # {}
    /\ groups' = groups \cup {newGroupId}
    /\ groupNames' = [groupNames EXCEPT ![newGroupId] = pending[s].name]
    /\ Await(s, [pending[s] EXCEPT !.groupId = newGroupId], "createMember")
    /\ UNCHANGED <<users, groupUsers, servers, notifVars, wire, late>>

\* POST /api/groups: prisma.groupUser.create({data: {userId:
\* session.user.id, groupId: group.id, role: "ADMIN"}}) and the response
GroupsPOST_createMember(s) ==
    /\ pending[s].op = "createGroup"
    /\ pending[s].pc = "createMember"
    /\ LET row == GroupUserRow(pending[s].caller, pending[s].groupId, "ADMIN")
       IN  IF canCreate(row)
           THEN /\ groupUsers' = groupUsers \cup {row}
                /\ Reply(s, pending[s], 201, None)
           ELSE /\ UNCHANGED groupUsers
                /\ Reply(s, pending[s], 500, "ERROR")
    /\ UNCHANGED <<users, groups, servers, notifVars, wire, late, groupNames>>

(* ------------------------------------------------------- /api/groups/[id] *)

\* checkGroupAccess(groupId, userId, requireAdmin) holds: the handler goes
\* on to updateGroupSchema (PUT) and to its next database call.
checkGroupAccess_granted(s) ==
    LET call == pending[s]
    IN  IF call.op = "updateGroup"
        THEN IF call.name = ""
             THEN Reply(s, call, 400, "INVALID_INPUT")
             ELSE Await(s, call, "update")
        ELSE Await(s, call, "findGroup")

\* checkGroupAccess of groups/[id]/route.ts:
\* prisma.user.findUnique({where: {id: userId}, select: {role: true}}) and
\* user?.role === "SUPER_ADMIN"
checkGroupAccess_user(s) ==
    /\ pending[s].op \in {"getGroup", "updateGroup"}
    /\ pending[s].pc = "checkUser"
    /\ IF roleOf(pending[s].caller) = "SUPER_ADMIN"
       THEN checkGroupAccess_granted(s)
       ELSE Await(s, pending[s], "checkMembership")
    /\ UNCHANGED <<dirVars, notifVars, wire, late, groupNames>>

\* where: {userId, groupId, ...(requireAdmin ? {role: "ADMIN"} : {})}
checkGroupAccess_where(m, groupId, userId, requireAdmin) ==
    /\ m.userId = userId
    /\ m.groupId = groupId
    /\ requireAdmin => m.role = "ADMIN"

\* checkGroupAccess of groups/[id]/route.ts: prisma.groupUser.findFirst and
\* !!groupUser; the 403 of the handler.  PUT passes requireAdmin.
checkGroupAccess_groupUser(s) ==
    /\ pending[s].op \in {"getGroup", "updateGroup"}
    /\ pending[s].pc = "checkMembership"
    /\ LET call == pending[s]
           requireAdmin == call.op = "updateGroup"
       IN  IF \E m \in groupUsers :
                 checkGroupAccess_where(m, call.groupId, call.caller, requireAdmin)
           THEN checkGroupAccess_granted(s)
           ELSE Reply(s, call, 403,
                      IF requireAdmin THEN "NOT_GROUP_ADMIN" ELSE "NO_GROUP_ACCESS")
    /\ UNCHANGED <<dirVars, notifVars, wire, late, groupNames>>

\* GET /api/groups/[id]: the session
GroupGET_session(s, caller, groupId) ==
    /\ pending[s].pc = "idle"
    /\ LET call == [Session("getGroup", caller) EXCEPT !.groupId = groupId]
       IN  IF caller = NoUser THEN Reply(s, call, 401, "UNAUTHORIZED")
           ELSE Await(s, call, "checkUser")
    /\ UNCHANGED <<dirVars, notifVars, wire, late, groupNames>>

\* GET /api/groups/[id]: prisma.group.findUnique({where: {id}, include})
\* with include.groupUsers and include.notificationConfigs, relations that
\* model Group does not have: the client refuses the query before it looks
\* for the row, and the catch block answers 500.
GroupGET_find(s) ==
    /\ pending[s].op = "getGroup"
    /\ pending[s].pc = "findGroup"
    /\ Reply(s, pending[s], 500, "ERROR")
    /\ UNCHANGED <<dirVars, notifVars, wire, late, groupNames>>

\* PUT /api/groups/[id]: the session; body.name is `name`
GroupPUT_session(s, caller, groupId, name) ==
    /\ pending[s].pc = "idle"
    /\ LET call == [Session("updateGroup", caller)
                       EXCEPT !.groupId = groupId, !.name = name]
       IN  IF caller = NoUser THEN Reply(s, call, 401, "UNAUTHORIZED")
           ELSE Await(s, call, "checkUser")
    /\ UNCHANGED <<dirVars, notifVars, wire, late, groupNames>>

\* PUT /api/groups/[id]: prisma.group.update({where: {id}, data}), which
\* throws when the row is not in its table
GroupPUT_update(s) ==
    /\ pending[s].op = "updateGroup"
    /\ pending[s].pc = "update"
    /\ LET groupId == pending[s].groupId
           name == pending[s].name
       IN  IF groupId \in groups
           THEN /\ groupNames' = IF name # Undefined
                                 THEN [groupNames EXCEPT ![groupId] = name]
                                 ELSE groupNames
                /\ Reply(s, pending[s], 200, None)
           ELSE /\ Reply(s, pending[s], 500, "ERROR")
                /\ UNCHANGED groupNames
    /\ UNCHANGED <<dirVars, notifVars, wire, late>>

\* DELETE /api/groups/[id]: the session and the role
GroupDELETE_session(s, caller, groupId) ==
    /\ pending[s].pc = "idle"
    /\ LET call == [Session("deleteGroup", caller) EXCEPT !.groupId = groupId]
       IN  IF caller = NoUser THEN Reply(s, call, 401, "UNAUTHORIZED")
           ELSE IF call.role # "SUPER_ADMIN" THEN Reply(s, call, 403, "FORBIDDEN")
           ELSE Await(s, call, "findGroup")
    /\ UNCHANGED <<dirVars, notifVars, wire, late, groupNames>>

\* DELETE /api/groups/[id]:
\* prisma.group.findUnique({where: {id}, include: {servers: true}}) and the
\* check of group.servers
GroupDELETE_find(s) ==
    /\ pending[s].op = "deleteGroup"
    /\ pending[s].pc = "findGroup"
    /\ IF pending[s].groupId \notin groups
       THEN Reply(s, pending[s], 404, "GROUP_NOT_FOUND")
       ELSE IF \E sv \in servers : pending[s].groupId \in sv.groups
       THEN Reply(s, pending[s], 400, "GROUP_HAS_SERVERS")
       ELSE Await(s, pending[s], "delete")
    /\ UNCHANGED <<dirVars, notifVars, wire, late, groupNames>>

\* DELETE /api/groups/[id]: prisma.group.delete({where: {id}}), which
\* throws when the row is gone; GroupUser.group and NotificationConfig.group
\* are onDelete: Cascade, as are the sub-configurations of a configuration,
\* and the rows of the implicit Group-Server relation go with the group
GroupDELETE_delete(s) ==
    /\ pending[s].op = "deleteGroup"
    /\ pending[s].pc = "delete"
    /\ LET groupId == pending[s].groupId
           gone == {c \in ConfigIds : configs[c].groupId = groupId}
       IN  IF groupId \in groups
           THEN /\ groups' = groups \ {groupId}
                /\ groupUsers' = {m \in groupUsers : m.groupId # groupId}
                /\ servers' = {[sv EXCEPT !.groups = @ \ {groupId}] : sv \in servers}
                /\ configs' = [c \in ConfigIds |-> IF c \in gone THEN NoConfig ELSE configs[c]]
                /\ emailConfigs' = [c \in ConfigIds |->
                                      IF c \in gone THEN Absent ELSE emailConfigs[c]]
                /\ webhookConfigs' = [c \in ConfigIds |->
                                        IF c \in gone THEN Absent ELSE webhookConfigs[c]]
                /\ probes' = [p \in ProbeIds |->
                                [probes[p] EXCEPT !.groups = @ \ {groupId}]]
                /\ groupNames' = [groupNames EXCEPT ![groupId] = DefaultName]
                /\ Forgetting(s, Replied(pending[s], 200, None),
                              {}, {groupId}, keysOfGroup(groupId))
                /\ Forgotten({}, {groupId}, gone)
           ELSE /\ Reply(s, pending[s], 500, "ERROR")
                /\ UNCHANGED <<groups, groupUsers, servers, configs, emailConfigs,
                               webhookConfigs, groupNames, slot, late, probes>>
    /\ UNCHANGED <<users, notifications, wire, alertHistory, outbox, now>>

(* ---------------------------------------------- /api/groups/[id]/members *)

\* checkGroupAdmin(groupId, userId) holds: the handler goes on to its
\* schema (updateMemberSchema for PUT) and to its next database call.
checkGroupAdmin_granted(s) ==
    LET call == pending[s]
    IN  IF call.op = "addMembers" THEN Await(s, call, "findGroup")
        ELSE IF call.op = "changeRole" /\ call.newRole \notin GroupRole
        THEN Reply(s, call, 400, "INVALID_INPUT")
        ELSE Await(s, call, "findMember")

\* checkGroupAdmin of the members routes:
\* prisma.user.findUnique({where: {id: userId}, select: {role: true}}) and
\* user?.role === "SUPER_ADMIN"
checkGroupAdmin_user(s) ==
    /\ pending[s].op \in {"addMembers", "changeRole", "removeMember"}
    /\ pending[s].pc = "checkUser"
    /\ IF roleOf(pending[s].caller) = "SUPER_ADMIN"
       THEN checkGroupAdmin_granted(s)
       ELSE Await(s, pending[s], "checkMembership")
    /\ UNCHANGED <<dirVars, notifVars, wire, late, groupNames>>

\* checkGroupAdmin of the members routes:
\* prisma.groupUser.findFirst({where: {userId, groupId, role: "ADMIN"}}) and
\* !!groupUser; the 403 of the handler
checkGroupAdmin_groupUser(s) ==
    /\ pending[s].op \in {"addMembers", "changeRole", "removeMember"}
    /\ pending[s].pc = "checkMembership"
    /\ IF \E m \in groupUsers :
             /\ m.userId = pending[s].caller
             /\ m.groupId = pending[s].groupId
             /\ m.role = "ADMIN"
       THEN checkGroupAdmin_granted(s)
       ELSE Reply(s, pending[s], 403, "NOT_GROUP_ADMIN")
    /\ UNCHANGED <<dirVars, notifVars, wire, late, groupNames>>

\* POST /api/groups/[id]/members: the session; body.users is `list`
MembersPOST_session(s, caller, groupId, list) ==
    /\ pending[s].pc = "idle"
    /\ LET call == [Session("addMembers", caller)
                       EXCEPT !.groupId = groupId,
                              !.list = [i \in DOMAIN list |->
                                          GroupUserRow(list[i].id, groupId, list[i].role)]]
       IN  IF caller = NoUser THEN Reply(s, call, 401, "UNAUTHORIZED")
           ELSE Await(s, call, "checkUser")
    /\ UNCHANGED <<dirVars, notifVars, wire, late, groupNames>>

\* POST /api/groups/[id]/members: prisma.group.findUnique({where: {id}})
MembersPOST_findGroup(s) ==
    /\ pending[s].op = "addMembers"
    /\ pending[s].pc = "findGroup"
    /\ IF pending[s].groupId \notin groups
       THEN Reply(s, pending[s], 404, "GROUP_NOT_FOUND")
       ELSE Await(s, pending[s], "findMembers")
    /\ UNCHANGED <<dirVars, notifVars, wire, late, groupNames>>


\* const newUsers = users.filter((user) =>
\*     !existingUserIds.includes(user.id)), as the rows to create
newUsers(rows, existingUserIds) ==
    SelectSeq(rows, LAMBDA r : r.userId \notin existingUserIds)

\* POST /api/groups/[id]/members:
\* prisma.groupUser.findMany({where: {groupId}, select: {userId: true}}),
\* newUsers, and the prisma.groupUser.create calls of Promise.all started
MembersPOST_findMany(s) ==
    /\ pending[s].op = "addMembers"
    /\ pending[s].pc = "findMembers"
    /\ LET call == pending[s]
           existingMembers == {m \in groupUsers : m.groupId = call.groupId}
           existingUserIds == {m.userId : m \in existingMembers}
           rows == newUsers(call.list, existingUserIds)
       IN  IF Len(rows) = 0
           THEN Reply(s, call, 400, "ALREADY_MEMBERS")
           ELSE Await(s, [call EXCEPT !.rows = rows], "create")
    /\ UNCHANGED <<dirVars, notifVars, wire, late, groupNames>>

\* POST /api/groups/[id]/members: one of the creates reaches the database
MembersPOST_create(s, i) ==
    /\ pending[s].op = "addMembers"
    /\ createOne(s, i)

\* POST /api/groups/[id]/members: the response after Promise.all
MembersPOST_done(s) ==
    /\ pending[s].op = "addMembers"
    /\ allSettled(s, 201)

(* ------------------------------------- /api/groups/[id]/members/[userId] *)

\* PUT_superAdminGuard that looks for a caller of role USER
PUT_superAdminGuard_usersOnly(currentUserRole) == currentUserRole = "USER"

\* PUT: "Ne pas autoriser la modification des Super Admins sauf par un autre
\* Super Admin" -- currentUser?.role !== "SUPER_ADMIN", TRUE when the
\* request is refused
PUT_superAdminGuard(currentUserRole) == currentUserRole # "SUPER_ADMIN"

\* PUT: "Empêcher de rétrograder le dernier admin du groupe" --
\* admins.length === 1, TRUE when the request is refused
PUT_lastAdminGuard(groupId) == Cardinality(findAdmins(groupId)) = 1

\* DELETE: "Ne pas autoriser la suppression des Super Admins sauf par un
\* autre Super Admin" -- TRUE when the request is refused
DELETE_superAdminGuard(currentUserRole) == currentUserRole # "SUPER_ADMIN"

\* DELETE: "Empêcher de retirer le dernier admin du groupe" -- TRUE when the
\* request is refused
DELETE_lastAdminGuard(groupId) == Cardinality(findAdmins(groupId)) = 1

\* PUT: member.role === "ADMIN" && role === "MEMBER"; DELETE: member.role
\* === "ADMIN" -- the handler counts the admins of the group before its
\* write
countsAdmins(call) ==
    /\ call.member.role = "ADMIN"
    /\ call.op = "changeRole" => call.newRole = "MEMBER"

\* The handler past its Super Admin check
Member_checked(s, call) ==
    IF countsAdmins(call) THEN Await(s, call, "findAdmins")
    ELSE Await(s, call, "write")

\* PUT /api/groups/[id]/members/[userId]: the session; body.role is `role`
MemberPUT_session(s, caller, groupId, memberId, role) ==
    /\ pending[s].pc = "idle"
    /\ LET call == [Session("changeRole", caller)
                       EXCEPT !.groupId = groupId, !.userId = memberId,
                              !.newRole = role]
       IN  IF caller = NoUser THEN Reply(s, call, 401, "UNAUTHORIZED")
           ELSE Await(s, call, "checkUser")
    /\ UNCHANGED <<dirVars, notifVars, wire, late, groupNames>>

\* DELETE /api/groups/[id]/members/[userId]: the session
MemberDELETE_session(s, caller, groupId, memberId) ==
    /\ pending[s].pc = "idle"
    /\ LET call == [Session("removeMember", caller)
                       EXCEPT !.groupId = groupId, !.userId = memberId]
       IN  IF caller = NoUser THEN Reply(s, call, 401, "UNAUTHORIZED")
           ELSE Await(s, call, "checkUser")
    /\ UNCHANGED <<dirVars, notifVars, wire, late, groupNames>>

\* PUT and DELETE: prisma.groupUser.findFirst({where: {groupId, userId:
\* memberId}, include: {user: {select: {role: true}}}}) and member.user.role
\* === "SUPER_ADMIN"
Member_find(s) ==
    /\ pending[s].op \in {"changeRole", "removeMember"}
    /\ pending[s].pc = "findMember"
    /\ LET found == findMember(pending[s].groupId, pending[s].userId)
           member == CHOOSE m \in found : TRUE
           call == [pending[s] EXCEPT !.member = member]
       IN  IF found = {} THEN Reply(s, pending[s], 404, "MEMBER_NOT_FOUND")
           ELSE IF roleOf(member.userId) = "SUPER_ADMIN"
           THEN Await(s, call, "currentUser")
           ELSE Member_checked(s, call)
    /\ UNCHANGED <<dirVars, notifVars, wire, late, groupNames>>

MemberPUT_findMember(s) == pending[s].op = "changeRole" /\ Member_find(s)

MemberDELETE_findMember(s) == pending[s].op = "removeMember" /\ Member_find(s)

\* PUT: prisma.user.findUnique({where: {id: session.user.id}, select:
\* {role: true}}) and the Super Admin guard
MemberPUT_currentUser(s) ==
    /\ pending[s].op = "changeRole"
    /\ pending[s].pc = "currentUser"
    /\ IF PUT_superAdminGuard(roleOf(pending[s].caller))
       THEN Reply(s, pending[s], 403, "SUPER_ADMIN_PROTECTED")
       ELSE Member_checked(s, pending[s])
    /\ UNCHANGED <<dirVars, notifVars, wire, late, groupNames>>

\* DELETE: prisma.user.findUnique({where: {id: session.user.id}, select:
\* {role: true}}) and the Super Admin guard
MemberDELETE_currentUser(s) ==
    /\ pending[s].op = "removeMember"
    /\ pending[s].pc = "currentUser"
    /\ IF DELETE_superAdminGuard(roleOf(pending[s].caller))
       THEN Reply(s, pending[s], 403, "SUPER_ADMIN_PROTECTED")
       ELSE Member_checked(s, pending[s])
    /\ UNCHANGED <<dirVars, notifVars, wire, late, groupNames>>

\* PUT: prisma.groupUser.findMany({where: {groupId, role: "ADMIN"}}) and
\* the last-admin guard
MemberPUT_findAdmins(s) ==
    /\ pending[s].op = "changeRole"
    /\ pending[s].pc = "findAdmins"
    /\ IF PUT_lastAdminGuard(pending[s].groupId)
       THEN Reply(s, pending[s], 400, "LAST_ADMIN")
       ELSE Await(s, pending[s], "write")
    /\ UNCHANGED <<dirVars, notifVars, wire, late, groupNames>>

\* DELETE: prisma.groupUser.findMany({where: {groupId, role: "ADMIN"}}) and
\* the last-admin guard
MemberDELETE_findAdmins(s) ==
    /\ pending[s].op = "removeMember"
    /\ pending[s].pc = "findAdmins"
    /\ IF DELETE_lastAdminGuard(pending[s].groupId)
       THEN Reply(s, pending[s], 400, "LAST_ADMIN")
       ELSE Await(s, pending[s], "write")
    /\ UNCHANGED <<dirVars, notifVars, wire, late, groupNames>>

\* PUT: prisma.groupUser.update({where: {id: member.id}, data: {role}}),
\* which throws when the row is gone, and the response
MemberPUT_update(s) ==
    /\ pending[s].op = "changeRole"
    /\ pending[s].pc = "write"
    /\ LET member == pending[s].member
           found == findMember(member.groupId, member.userId)
       IN  IF found = {}
           THEN /\ Reply(s, pending[s], 500, "ERROR")
                /\ UNCHANGED groupUsers
           ELSE /\ groupUsers' = (groupUsers \ found) \cup
                                   {GroupUserRow(member.userId, member.groupId,
                                                 pending[s].newRole)}
                /\ Reply(s, pending[s], 200, None)
    /\ UNCHANGED <<users, groups, servers, notifVars, wire, late, groupNames>>

\* DELETE: prisma.groupUser.delete({where: {id: member.id}}), which throws
\* when the row is gone, and the response
MemberDELETE_delete(s) ==
    /\ pending[s].op = "removeMember"
    /\ pending[s].pc = "write"
    /\ LET member == pending[s].member
           found == findMember(member.groupId, member.userId)
       IN  IF found = {}
           THEN /\ Reply(s, pending[s], 500, "ERROR")
                /\ UNCHANGED <<groupUsers, late>>
           ELSE /\ groupUsers' = groupUsers \ found
                /\ Forgetting(s, Replied(pending[s], 200, None), {}, {},
                              {<<member.userId, member.groupId>>})
    /\ UNCHANGED <<users, groups, servers, notifVars, wire, groupNames>>

(* --------------------------------------------------------------- /api/users *)

\* POST /api/users: the session, the role and createUserSchema; body.groups
\* is `list`
UsersPOST_session(s, caller, email, role, list) ==
    /\ pending[s].pc = "idle"
    /\ LET call == [Session("createUser", caller)
                       EXCEPT !.email = email, !.newRole = role,
                              !.list = [i \in DOMAIN list |->
                                          GroupUserRow(None, list[i].id, list[i].role)]]
       IN  IF caller = NoUser THEN Reply(s, call, 401, "UNAUTHORIZED")
           ELSE IF call.role # "SUPER_ADMIN" THEN Reply(s, call, 403, "FORBIDDEN")
           ELSE Await(s, call, "findUser")
    /\ UNCHANGED <<dirVars, notifVars, wire, late, groupNames>>

\* POST /api/users: prisma.user.findUnique({where: {email}})
UsersPOST_findUser(s) ==
    /\ pending[s].op = "createUser"
    /\ pending[s].pc = "findUser"
    /\ IF users[pending[s].email] # Absent
       THEN Reply(s, pending[s], 400, "EMAIL_IN_USE")
       ELSE Await(s, pending[s], "createUser")
    /\ UNCHANGED <<dirVars, notifVars, wire, late, groupNames>>

\* POST /api/users: bcrypt.hash and prisma.user.create({data: {email,
\* role}}), which throws on an e-mail that a row has; then the
\* prisma.groupUser.create calls of Promise.all started, or the response
UsersPOST_createUser(s) ==
    /\ pending[s].op = "createUser"
    /\ pending[s].pc = "createUser"
    /\ LET call == pending[s]
           user == call.email
           rows == [i \in DOMAIN call.list |->
                      GroupUserRow(user, call.list[i].groupId, call.list[i].role)]
       IN  IF users[call.email] # Absent
           THEN /\ Reply(s, call, 500, "ERROR")
                /\ UNCHANGED users
           ELSE /\ users' = [users EXCEPT ![call.email] = call.newRole]
                /\ IF Len(rows) > 0
                   THEN Await(s, [call EXCEPT !.userId = user, !.rows = rows], "create")
                   ELSE Reply(s, [call EXCEPT !.userId = user], 201, None)
    /\ UNCHANGED <<groups, groupUsers, servers, notifVars, wire, late, groupNames>>

\* POST /api/users: one of the creates reaches the database
UsersPOST_create(s, i) ==
    /\ pending[s].op = "createUser"
    /\ createOne(s, i)

\* POST /api/users: the response after Promise.all
UsersPOST_done(s) ==
    /\ pending[s].op = "createUser"
    /\ allSettled(s, 201)

(* ---------------------------------------------------------- /api/users/[id] *)

\* finalRole that takes the role of the body in a self edit too
finalRole_selfRole(isSelfEdit, role) == role

\* const finalRole = isSelfEdit ? undefined : role
finalRole(isSelfEdit, role) == IF isSelfEdit THEN Undefined ELSE role

\* PUT /api/users/[id]: the session, the permission check and
\* updateUserSchema, the body leaving out name, email and password;
\* hasGroups: body.groups is given, and then it is `list`
UserPUT_session(s, caller, userId, role, hasGroups, list) ==
    /\ pending[s].pc = "idle"
    /\ LET isSelfEdit == caller = userId
           call == [Session("updateUser", caller)
                       EXCEPT !.userId = userId, !.hasGroups = hasGroups,
                              !.newRole = finalRole(isSelfEdit, role),
                              !.list = [i \in DOMAIN list |->
                                          GroupUserRow(userId, list[i].id, list[i].role)]]
       IN  IF caller = NoUser THEN Reply(s, call, 401, "UNAUTHORIZED")
           ELSE IF call.role # "SUPER_ADMIN" /\ caller # userId
           THEN Reply(s, call, 403, "FORBIDDEN")
           ELSE Await(s, call, "update")
    /\ UNCHANGED <<dirVars, notifVars, wire, late, groupNames>>

\* PUT /api/users/[id]: prisma.user.update({where: {id: userId}, data}),
\* which throws when the row is gone; the response when the group list is
\* left alone
UserPUT_update(s) ==
    /\ pending[s].op = "updateUser"
    /\ pending[s].pc = "update"
    /\ LET call == pending[s]
       IN  IF roleOf(call.userId) = Absent
           THEN /\ Reply(s, call, 500, "ERROR")
                /\ UNCHANGED users
           ELSE /\ users' = IF call.newRole # Undefined
                            THEN [users EXCEPT ![call.userId] = call.newRole]
                            ELSE users
                /\ IF call.hasGroups /\ call.role = "SUPER_ADMIN"
                   THEN Await(s, call, "deleteMany")
                   ELSE Reply(s, call, 200, None)
    /\ UNCHANGED <<groups, groupUsers, servers, notifVars, wire, late, groupNames>>

\* PUT /api/users/[id]: prisma.groupUser.deleteMany({where: {userId}});
\* then the prisma.groupUser.create calls of Promise.all started, or the
\* response
UserPUT_deleteMany(s) ==
    /\ pending[s].op = "updateUser"
    /\ pending[s].pc = "deleteMany"
    /\ LET call == pending[s]
       IN  /\ groupUsers' = {m \in groupUsers : m.userId # call.userId}
           /\ Forgetting(s, IF Len(call.list) > 0
                            THEN [call EXCEPT !.pc = "create", !.rows = call.list]
                            ELSE Replied(call, 200, None),
                         {}, {}, keysOfUser(call.userId))
    /\ UNCHANGED <<users, groups, servers, notifVars, wire, groupNames>>

\* PUT /api/users/[id]: one of the creates reaches the database
UserPUT_create(s, i) ==
    /\ pending[s].op = "updateUser"
    /\ createOne(s, i)

\* PUT /api/users/[id]: the response after Promise.all
UserPUT_done(s) ==
    /\ pending[s].op = "updateUser"
    /\ allSettled(s, 200)

\* DELETE /api/users/[id]: the session, the role and the check of a
\* self-delete
UserDELETE_session(s, caller, userId) ==
    /\ pending[s].pc = "idle"
    /\ LET call == [Session("deleteUser", caller) EXCEPT !.userId = userId]
       IN  IF caller = NoUser THEN Reply(s, call, 401, "UNAUTHORIZED")
           ELSE IF call.role # "SUPER_ADMIN" THEN Reply(s, call, 403, "FORBIDDEN")
           ELSE IF caller = userId THEN Reply(s, call, 400, "SELF_DELETE")
           ELSE Await(s, call, "findUser")
    /\ UNCHANGED <<dirVars, notifVars, wire, late, groupNames>>

\* DELETE /api/users/[id]: prisma.user.findUnique({where: {id: userId}})
UserDELETE_find(s) ==
    /\ pending[s].op = "deleteUser"
    /\ pending[s].pc = "findUser"
    /\ IF roleOf(pending[s].userId) = Absent
       THEN Reply(s, pending[s], 404, "USER_NOT_FOUND")
       ELSE Await(s, pending[s], "delete")
    /\ UNCHANGED <<dirVars, notifVars, wire, late, groupNames>>

\* DELETE /api/users/[id]: prisma.user.delete({where: {id: userId}}), which
\* throws when the row is gone; GroupUser.user is onDelete: Cascade, and
\* Server.createdBy has no onDelete, so the delete of a user who created a
\* server is refused by the database
UserDELETE_delete(s) ==
    /\ pending[s].op = "deleteUser"
    /\ pending[s].pc = "delete"
    /\ LET userId == pending[s].userId
       IN  IF \/ roleOf(userId) = Absent
              \/ \E sv \in servers : sv.createdById = userId
           THEN /\ Reply(s, pending[s], 500, "ERROR")
                /\ UNCHANGED <<users, groupUsers, slot, late>>
           ELSE /\ users' = [users EXCEPT ![userId] = Absent]
                /\ groupUsers' = {m \in groupUsers : m.userId # userId}
                /\ Forgetting(s, Replied(pending[s], 200, None),
                              {userId}, {}, keysOfUser(userId))
                /\ Forgotten({userId}, {}, {})
    /\ UNCHANGED <<groups, servers, configs, emailConfigs, webhookConfigs, notifications,
                   wire, groupNames>>

(* ----------------------------------------- /api/servers/[serverId]/probes *)

\* The server ids the URL of a probes request names: the server s1 and the
\* id of no row.
ProbedServers == {"s1", Gone}

\* probeSchema, groups: the group ids a body lists, here the group g1 or
\* the id of no row; the body without groups and the body with the empty
\* list are the empty set.
ProbeGroupLists == {{}, {"g1"}, {Gone}}

\* The keyword an HTTP probe can expect in the body of the response.
Keyword == "up"

\* probeSchema, type and config: the HTTP body with the expectations it
\* sets, and the WEBHOOK body with an expectedPayload; the type Undefined
\* is a body that probeSchema.safeParse refuses.
ProbeConfigs ==
    [type : {"HTTP"}, expectedStatus : {Absent, "200"}, expectedKeyword : {Absent}]
        \cup {[type |-> "WEBHOOK", expectedStatus |-> Absent, expectedKeyword |-> Absent]}
        \cup {[type |-> Undefined, expectedStatus |-> Absent, expectedKeyword |-> Absent]}

\* The requests that have not yet created their Probe row
CreatingProbe ==
    {t \in Slots : /\ pending[t].op = "createProbe"
                   /\ pending[t].pc \in {"accessServer", "accessCount", "findGroups",
                                         "findServer", "create"}}

\* POST, after checkServerAccess has returned true: probeSchema
\* .safeParse(body), then the groups of the probe: body.groups as they are
\* for a SUPER_ADMIN, the caller's among them otherwise, and the groups of
\* the server when the body lists none
ProbesPOST_parse(s, call) ==
    IF call.config.type = Undefined THEN Reply(s, call, 400, "INVALID_INPUT")
    ELSE IF call.groupIds = {} THEN Await(s, call, "findServer")
    ELSE IF call.role = "SUPER_ADMIN" THEN Await(s, call, "create")
    ELSE Await(s, call, "findGroups")

\* POST /api/servers/[serverId]/probes: the session; checkServerAccess
\* returns true for a SUPER_ADMIN without a database call.  A request is
\* taken when an id is left for its row.
ProbesPOST_session(s, caller, serverId, bodyGroups, config) ==
    /\ pending[s].pc = "idle"
    /\ Cardinality({p \in ProbeIds : probes[p] # NoProbe}) + Cardinality(CreatingProbe)
          < Cardinality(ProbeIds)
    /\ LET call == [Session("createProbe", caller)
                       EXCEPT !.serverId = serverId, !.groupIds = bodyGroups,
                              !.config = config]
       IN  IF caller = NoUser THEN Reply(s, call, 401, "UNAUTHORIZED")
           ELSE IF call.role = "SUPER_ADMIN" THEN ProbesPOST_parse(s, call)
           ELSE Await(s, call, "accessServer")
    /\ UNCHANGED <<dirVars, notifVars, wire, late, groupNames, trackVars>>

\* checkServerAccess: server = prisma.server.findUnique({where: {id:
\* serverId}, include: {groups}}); false without the row, and 403
checkServerAccess_server(s) ==
    /\ pending[s].op = "createProbe"
    /\ pending[s].pc = "accessServer"
    /\ LET found == {sv \in servers : sv.id = pending[s].serverId}
       IN  IF found = {}
           THEN Reply(s, pending[s], 403, "FORBIDDEN")
           ELSE Await(s, [pending[s] EXCEPT !.serverGroupIds =
                                                UNION {sv.groups : sv \in found}],
                      "accessCount")
    /\ UNCHANGED <<dirVars, notifVars, wire, late, groupNames, trackVars>>

\* checkServerAccess: prisma.groupUser.count({where: {userId, groupId: {in:
\* serverGroupIds}}}) > 0, and 403 without it; then the body
checkServerAccess_count(s) ==
    /\ pending[s].op = "createProbe"
    /\ pending[s].pc = "accessCount"
    /\ LET call == pending[s]
           userGroupsCount == Cardinality({m \in groupUsers :
                                              /\ m.userId = call.caller
                                              /\ m.groupId \in call.serverGroupIds})
       IN  IF userGroupsCount > 0
           THEN ProbesPOST_parse(s, [call EXCEPT !.serverGroupIds = {}])
           ELSE Reply(s, call, 403, "FORBIDDEN")
    /\ UNCHANGED <<dirVars, notifVars, wire, late, groupNames, trackVars>>

\* POST: userGroups = prisma.groupUser.findMany({where: {userId, groupId:
\* {in: groups}}}); 403 when the caller is not in every group listed
ProbesPOST_findGroups(s) ==
    /\ pending[s].op = "createProbe"
    /\ pending[s].pc = "findGroups"
    /\ LET call == pending[s]
           probeGroups == {m.groupId : m \in {x \in groupUsers :
                                                 /\ x.userId = call.caller
                                                 /\ x.groupId \in call.groupIds}}
       IN  IF Cardinality(probeGroups) # Cardinality(call.groupIds)
           THEN Reply(s, call, 403, "FORBIDDEN_GROUPS")
           ELSE Await(s, [call EXCEPT !.groupIds = probeGroups], "create")
    /\ UNCHANGED <<dirVars, notifVars, wire, late, groupNames, trackVars>>

\* POST: server = prisma.server.findUnique(...) of a body without groups:
\* the groups of the server, none when the row is missing
ProbesPOST_findServer(s) ==
    /\ pending[s].op = "createProbe"
    /\ pending[s].pc = "findServer"
    /\ LET found == {sv \in servers : sv.id = pending[s].serverId}
       IN  Await(s, [pending[s] EXCEPT !.groupIds = UNION {sv.groups : sv \in found}],
                 "create")
    /\ UNCHANGED <<dirVars, notifVars, wire, late, groupNames, trackVars>>

\* POST: probe = prisma.probe.create({data: {name, type, serverId, groups:
\* {connect: probeGroups}}}): the row has the default status UNKNOWN; the
\* create throws on a serverId without its Server row, connect throws on a
\* group that is not in its table, and then no row is written
ProbesPOST_create(s) ==
    /\ pending[s].op = "createProbe"
    /\ pending[s].pc = "create"
    /\ LET call == pending[s]
       IN  IF /\ \E sv \in servers : sv.id = call.serverId
              /\ call.groupIds \subseteq groups
           THEN \E id \in {p \in ProbeIds : probes[p] = NoProbe} :
                  /\ probes' = [probes EXCEPT ![id] =
                                  ProbeRow(call.config.type, call.serverId, call.groupIds,
                                           FALSE, Absent, Absent, "UNKNOWN")]
                  /\ Await(s, [call EXCEPT !.probeId = id], "createConfig")
           ELSE /\ Reply(s, call, 500, "ERROR")
                /\ UNCHANGED probes
    /\ UNCHANGED <<dirVars, notifVars, wire, late, groupNames, alertHistory, outbox, now>>

\* POST: prisma.httpProbe.create or prisma.webhookProbe.create({data:
\* {probeId: probe.id, ...config}}), which throws without the Probe row
ProbesPOST_createConfig(s) ==
    /\ pending[s].op = "createProbe"
    /\ pending[s].pc = "createConfig"
    /\ LET call == pending[s]
       IN  IF probes[call.probeId] # NoProbe
           THEN /\ probes' = [probes EXCEPT ![call.probeId] =
                                [@ EXCEPT !.configured = TRUE,
                                          !.expectedStatus = call.config.expectedStatus,
                                          !.expectedKeyword = call.config.expectedKeyword]]
                /\ Await(s, call, "reread")
           ELSE /\ Reply(s, call, 500, "ERROR")
                /\ UNCHANGED probes
    /\ UNCHANGED <<dirVars, notifVars, wire, late, groupNames, alertHistory, outbox, now>>

\* POST: completeProbe = prisma.probe.findUnique(...) and the response
ProbesPOST_reread(s) ==
    /\ pending[s].op = "createProbe"
    /\ pending[s].pc = "reread"
    /\ Reply(s, pending[s], 201, None)
    /\ UNCHANGED <<dirVars, notifVars, wire, late, groupNames, trackVars>>

(* ------------------------------------------------- probe status tracker *)

\* enum ProbeStatus
ProbeStatus == {"OK", "WARNING", "ERROR", "UNKNOWN"}

\* The evaluations of probe results a run may hold.
MaxEvaluations == 3

\* A row of table AlertHistory; createdAt and resolvedAt are readings of
\* the tracker's clock, resolvedAt 0 is null.
AlertHistoryRow(probeId, status, createdAt) ==
    [probeId |-> probeId, status |-> status, createdAt |-> createdAt,
     resolved |-> FALSE, resolvedAt |-> 0]

\* The raw results of the external checker for an HTTP probe:
\* {probeId, success, observedStatusCode, observedBody}, the body as its words.
StatusCodes == {"200", "500"}
Bodies == {<<"service", "up">>, <<"down">>}
CheckResults == [success : BOOLEAN, observedStatusCode : StatusCodes, observedBody : Bodies]

\* observedBody contains expectedKeyword
contains(body, keyword) == \E i \in DOMAIN body : body[i] = keyword

\* Status derivation of an HTTP probe: OK if the checker reports success
\* and every expectation that is set is met, ERROR on a hard failure of the
\* checker, WARNING when the transport succeeded and an expectation was not
\* met.
deriveStatus(probe, result) ==
    IF ~ result.success THEN "ERROR"
    ELSE IF /\ \/ probe.expectedStatus = Absent
               \/ result.observedStatusCode = probe.expectedStatus
            /\ \/ probe.expectedKeyword = Absent
               \/ contains(result.observedBody, probe.expectedKeyword)
         THEN "OK"
         ELSE "WARNING"

Alerting == {"WARNING", "ERROR"}

\* The rows of table AlertHistory of the probe that are not resolved.
unresolved(probeId) ==
    {i \in DOMAIN alertHistory :
        alertHistory[i].probeId = probeId /\ ~ alertHistory[i].resolved}

\* A transition lands on OK after a prior WARNING or ERROR.
closes(previous, status) == status = "OK" /\ previous \in Alerting

\* The tracker records every evaluation, a status that did not change
\* included
records_everyPoll(previous, status) == status \in Alerting

\* An AlertHistory entry is written only when the status differs from the
\* previous status; the OK observation itself gets no row.
records(previous, status) == status # previous /\ status \in Alerting

\* Table AlertHistory after the evaluation: the most recent unresolved row
\* of the probe is closed on a return to OK, a row is added on a transition
\* into WARNING or ERROR.
writeHistory(probeId, previous, status, at) ==
    IF closes(previous, status) /\ unresolved(probeId) # {}
    THEN LET recent == CHOOSE i \in unresolved(probeId) :
                          \A j \in unresolved(probeId) : j <= i
         IN  [alertHistory EXCEPT ![recent] = [@ EXCEPT !.resolved = TRUE, !.resolvedAt = at]]
    ELSE IF records(previous, status)
         THEN Append(alertHistory, AlertHistoryRow(probeId, status, at))
         ELSE alertHistory

\* The tracker notifies every configuration, whatever its group
attachedConfigs_perGroup(serverId) ==
    {c \in DOMAIN configs : configs[c].type # Absent}

\* Every NotificationConfig attached to any group shared with the probe's
\* server.
attachedConfigs(serverId) ==
    {c \in DOMAIN configs :
        /\ configs[c].type # Absent
        /\ \E sv \in servers : sv.id = serverId /\ configs[c].groupId \in sv.groups}

\* The members of a set of strings as a list without repetition.
RECURSIVE listOf(_)
listOf(S) ==
    IF S = {} THEN <<>>
    ELSE LET c == CHOOSE x \in S : TRUE IN <<c>> \o listOf(S \ {c})

\* A send operation the tracker asks for: the event of the probe, for one
\* configuration.
Dispatch(configId, serverId, probeId, level) ==
    [notificationConfigId |-> configId, serverId |-> serverId, probeId |-> probeId,
     level |-> level]

\* The tracker evaluates a raw result of the checker for a probe: it writes
\* the derived status onto the Probe row, keeps table AlertHistory, and on
\* a transition into WARNING or ERROR asks for one send operation for
\* every configuration attached to a group of the probe's server.
Tracker_evaluate(probeId, result) ==
    /\ probes[probeId] # NoProbe
    /\ probes[probeId].type = "HTTP"
    /\ now < MaxEvaluations
    /\ LET probe == probes[probeId]
           status == deriveStatus(probe, result)
           targets == listOf(attachedConfigs(probe.serverId))
       IN  /\ now' = now + 1
           /\ probes' = [probes EXCEPT ![probeId] = [probe EXCEPT !.status = status]]
           /\ alertHistory' = writeHistory(probeId, probe.status, status, now')
           /\ outbox' = IF status # probe.status /\ status \in Alerting
                        THEN outbox \o [i \in DOMAIN targets |->
                                          Dispatch(targets[i], probe.serverId, probeId, status)]
                        ELSE outbox
    /\ UNCHANGED <<dirVars, notifVars, auxVars>>

\* The dispatch task takes the oldest send operation the tracker asked for
\* and runs the send handler on it.
Tracker_send(s) ==
    /\ outbox # <<>>
    /\ SendPOST_findConfig(s, NoUser, TRUE, Head(outbox).notificationConfigId,
                           Head(outbox).serverId, Head(outbox).probeId)
    /\ outbox' = Tail(outbox)
    /\ UNCHANGED <<probes, alertHistory, now>>

(* ------------------------------------------------------ specifications *)

\* No request is being handled and no response is on its way.
Quiet == \A s \in Slots : slot[s].pc = "idle" /\ pending[s].pc = "idle"

\* No request is being handled, and no create of a request that has
\* answered is on its way.
Calm == Quiet /\ late = <<>>

\* The client has the response of slot s, or a create that was still on its
\* way when its handler answered reaches the database.
Settle(s) == Receive(s) \/ \E i \in 1..(2 * MaxListLen) : lateCreate(i)

\* The lists a request of `caller` is sent with: every list of `lists` when
\* the handler gets as far as using the list (`used`), the empty list when
\* it answers before.
ListsFor(used, lists) == IF used THEN lists ELSE {<<>>}

\* checkGroupAdmin(groupId, userId) of the members routes, as the database
\* stands
checkGroupAdmin(groupId, userId) ==
    \/ roleOf(userId) = "SUPER_ADMIN"
    \/ \E m \in groupUsers : m.userId = userId /\ m.groupId = groupId /\ m.role = "ADMIN"

\* A request with the list l is taken while the creates on their way whose
\* handler has answered leave room for those of the list.
Room(l) == Len(late) + Len(l) <= MaxListLen

\* The users a list of new members names, and the lists
Joiners == {"u2", "u3"}
JoinLists == SeqsUpTo([id : Joiners, role : GroupRole], MaxListLen)

(* -------------------------------------------------------------- SpecNotif *)

\* The directory the notification routes run against: u1 registered first
\* (SUPER_ADMIN, ADMIN of the default group g1), u2 and u3 created by u1,
\* u2 as ADMIN of g1 and u3 in no group; u1 created the server s1 in g1.
InitNotif ==
    /\ users = [u \in UserIds |-> IF u = "u1" THEN "SUPER_ADMIN" ELSE "USER"]
    /\ groups = {"g1"}
    /\ groupUsers = {GroupUserRow("u1", "g1", "ADMIN"), GroupUserRow("u2", "g1", "ADMIN")}
    /\ servers = {[id |-> "s1", createdById |-> "u1", groups |-> {"g1"}]}
    /\ configs = [c \in ConfigIds |-> NoConfig]
    /\ emailConfigs = [c \in ConfigIds |-> Absent]
    /\ webhookConfigs = [c \in ConfigIds |-> Absent]
    /\ notifications = <<>>
    /\ slot = [s \in Slots |-> IdleSlot]
    /\ wire = NoWire
    /\ pending = [s \in Slots |-> NoCall]
    /\ late = <<>>
    /\ groupNames = [g \in ServerGroups |-> DefaultName]
    /\ NoProbes

\* Who sends the send requests: nobody in particular, and u3, who is in no
\* group.  The handler reads no session and answers every caller alike.
Senders == {NoUser, "u3"}

NextNotif ==
    \/ Untracked /\ \E s \in ConfigSlots, c \in Callers, b \in ConfigBodies :
          NotificationsPOST_session(s, c, b)
    \/ Untracked /\ \E s \in ConfigSlots : NotificationsPOST_access(s)
    \/ Untracked /\ \E s \in ConfigSlots : NotificationsPOST_create(s)
    \/ Untracked /\ \E s \in ConfigSlots : NotificationsPOST_createSub(s)
    \/ Untracked /\ \E s \in ConfigSlots : NotificationsPOST_reread(s)
    \/ Untracked /\ \E s \in ConfigSlots, c \in Callers, id \in ConfigIds, b \in ConfigBodies :
          NotificationPUT_session(s, c, id, b)
    \/ Untracked /\ \E s \in ConfigSlots : checkAccess_config(s)
    \/ Untracked /\ \E s \in ConfigSlots : checkGroupAdminAccess_groupUser(s)
    \/ Untracked /\ \E s \in ConfigSlots : NotificationPUT_find(s)
    \/ Untracked /\ \E s \in ConfigSlots : NotificationPUT_update(s)
    \/ Untracked /\ \E s \in ConfigSlots : NotificationPUT_deleteOld(s)
    \/ Untracked /\ \E s \in ConfigSlots : NotificationPUT_upsert(s)
    \/ Untracked /\ \E s \in ConfigSlots : NotificationPUT_reread(s)
    \/ Untracked /\ \E s \in Slots, c \in Senders, v \in BOOLEAN, id \in ConfigIds,
                       sv \in ServerIds, p \in SentProbeIds \cup {Undefined} :
          SendPOST_findConfig(s, c, v, id, sv, p)
    \/ Untracked /\ \E s \in Slots : SendPOST_findServer(s)
    \/ Untracked /\ \E s \in Slots : SendPOST_findProbe(s)
    \/ Untracked /\ \E s \in Slots : SendPOST_create(s)
    \/ Untracked /\ \E s \in Slots : Return(s)

\* Configurations are created, updated and sent on; one request to the
\* configuration routes at a time.
SpecNotif == InitNotif /\ [][NextNotif]_vars

(* ------------------------------------------------------------ SpecConfigs *)

NextConfigs ==
    \/ Untracked /\ \E s \in Slots, c \in Callers, b \in ConfigBodies :
          NotificationsPOST_session(s, c, b)
    \/ Untracked /\ \E s \in Slots : NotificationsPOST_access(s)
    \/ Untracked /\ \E s \in Slots : NotificationsPOST_create(s)
    \/ Untracked /\ \E s \in Slots : NotificationsPOST_createSub(s)
    \/ Untracked /\ \E s \in Slots : NotificationsPOST_reread(s)
    \/ Untracked /\ \E s \in Slots, c \in Callers, id \in ConfigIds, b \in ConfigBodies :
          NotificationPUT_session(s, c, id, b)
    \/ Untracked /\ \E s \in Slots : checkAccess_config(s)
    \/ Untracked /\ \E s \in Slots : checkGroupAdminAccess_groupUser(s)
    \/ Untracked /\ \E s \in Slots : NotificationPUT_find(s)
    \/ Untracked /\ \E s \in Slots : NotificationPUT_update(s)
    \/ Untracked /\ \E s \in Slots : NotificationPUT_deleteOld(s)
    \/ Untracked /\ \E s \in Slots : NotificationPUT_upsert(s)
    \/ Untracked /\ \E s \in Slots : NotificationPUT_reread(s)
    \/ Untracked /\ \E s \in Slots : Return(s)

\* Configurations are created and updated by requests that run together.
SpecConfigs == InitNotif /\ [][NextConfigs]_vars

(* ------------------------------------------------------------ SpecWebhook *)

NextWebhook ==
    \/ \E t \in Templates, e \in Events : Untracked /\ sendWebhook(t, e)
    \/ \E o \in FetchOutcomes : Untracked /\ fetch_settles(o)
    \/ Untracked /\ sendWebhook_resume
    \/ \E parses \in BOOLEAN : Untracked /\ sendWebhook_json(parses)

\* Webhooks are posted for every template and event.
SpecWebhook == InitNotif /\ [][NextWebhook]_vars

(* ------------------------------------------------------------- SpecAttach *)

\* The directory the configurations are attached in: u1 registered first
\* (SUPER_ADMIN, ADMIN of the default group g1), u2 is ADMIN of g1 and u3
\* is MEMBER of g2; no configuration exists.
InitAttach ==
    /\ users = [u \in UserIds |-> IF u = "u1" THEN "SUPER_ADMIN" ELSE "USER"]
    /\ groups = ServerGroups
    /\ groupUsers = {GroupUserRow("u1", "g1", "ADMIN"), GroupUserRow("u2", "g1", "ADMIN"),
                     GroupUserRow("u3", "g2", "MEMBER")}
    /\ servers = {}
    /\ configs = [c \in ConfigIds |-> NoConfig]
    /\ emailConfigs = [c \in ConfigIds |-> Absent]
    /\ webhookConfigs = [c \in ConfigIds |-> Absent]
    /\ notifications = <<>>
    /\ slot = [s \in Slots |-> IdleSlot]
    /\ wire = NoWire
    /\ pending = [s \in Slots |-> NoCall]
    /\ late = <<>>
    /\ groupNames = [g \in ServerGroups |-> DefaultName]
    /\ NoProbes
NextAttach ==
    \/ Untracked /\ \E s \in ConfigSlots, c \in Callers, b \in notificationSchema :
          NotificationsPOST_session(s, c, b)
    \/ Untracked /\ \E s \in ConfigSlots : NotificationsPOST_access(s)
    \/ Untracked /\ \E s \in ConfigSlots : NotificationsPOST_create(s)
    \/ Untracked /\ \E s \in ConfigSlots : NotificationsPOST_createSub(s)
    \/ Untracked /\ \E s \in ConfigSlots : NotificationsPOST_reread(s)
    \/ Untracked /\ \E s \in ConfigSlots, c \in Callers, id \in ConfigIds,
                       b \in notificationSchema : NotificationPUT_session(s, c, id, b)
    \/ Untracked /\ \E s \in ConfigSlots : checkAccess_config(s)
    \/ Untracked /\ \E s \in ConfigSlots : checkGroupAdminAccess_groupUser(s)
    \/ Untracked /\ \E s \in ConfigSlots : NotificationPUT_find(s)
    \/ Untracked /\ \E s \in ConfigSlots : NotificationPUT_update(s)
    \/ Untracked /\ \E s \in ConfigSlots : NotificationPUT_deleteOld(s)
    \/ Untracked /\ \E s \in ConfigSlots : NotificationPUT_upsert(s)
    \/ Untracked /\ \E s \in ConfigSlots : NotificationPUT_reread(s)
    \/ Untracked /\ \E s \in ConfigSlots : Return(s)

\* Configurations are created and updated, one request at a time, with
\* bodies that name either group.
SpecAttach == InitAttach /\ [][NextAttach]_vars

(* ------------------------------------------------------------ SpecTracker *)

\* The configurations the tracked groups hold.
TrackedConfigs == {"c1", "c2", "c3"}

\* The database the tracker runs against: u1 registered first and created
\* u2 as MEMBER of g1; the server s1 is attached to g1 and s2 to g1 and g2;
\* the configuration c1 (EMAIL) is attached to g1 and c2 (WEBHOOK) to g2,
\* c3 (EMAIL) to either group or missing; the probe p1 of s1 expects status
\* 200 and the keyword, the probe p2 of s2, when it exists, expects
\* nothing; no result has been evaluated.
InitTracker ==
    /\ users = [u \in UserIds |-> IF u = "u1" THEN "SUPER_ADMIN"
                                  ELSE IF u = "u2" THEN "USER" ELSE Absent]
    /\ groups = ServerGroups
    /\ groupUsers = {GroupUserRow("u1", "g1", "ADMIN"), GroupUserRow("u2", "g1", "MEMBER")}
    /\ servers = {[id |-> "s1", createdById |-> "u1", groups |-> {"g1"}],
                  [id |-> "s2", createdById |-> "u1", groups |-> {"g1", "g2"}]}
    /\ \E c3 \in {NoConfig, ConfigRow("EMAIL", "g1"), ConfigRow("EMAIL", "g2")} :
          /\ configs = [c \in TrackedConfigs |->
                          IF c = "c1" THEN ConfigRow("EMAIL", "g1")
                          ELSE IF c = "c2" THEN ConfigRow("WEBHOOK", "g2") ELSE c3]
          /\ emailConfigs = [c \in TrackedConfigs |->
                               IF c = "c1" \/ (c = "c3" /\ c3 # NoConfig) THEN "ra" ELSE Absent]
    /\ webhookConfigs = [c \in TrackedConfigs |-> IF c = "c2" THEN "wa" ELSE Absent]
    /\ notifications = <<>>
    /\ slot = [s \in Slots |-> IdleSlot]
    /\ wire = NoWire
    /\ pending = [s \in Slots |-> NoCall]
    /\ late = <<>>
    /\ groupNames = [g \in ServerGroups |-> DefaultName]
    /\ \E p2 \in {NoProbe, ProbeRow("HTTP", "s2", {"g1", "g2"}, TRUE, Absent, Absent,
                                      "UNKNOWN")} :
          probes = [p \in ProbeIds |->
                      IF p = "p1"
                      THEN ProbeRow("HTTP", "s1", {"g1"}, TRUE, "200", Keyword, "UNKNOWN")
                      ELSE p2]
    /\ alertHistory = <<>>
    /\ outbox = <<>>
    /\ now = 0

NextTracker ==
    \/ pending["r1"].pc = "idle" /\ \E p \in ProbeIds, r \in CheckResults :
          Tracker_evaluate(p, r)
    \/ Tracker_send("r1")
    \/ Untracked /\ SendPOST_findServer("r1")
    \/ Untracked /\ SendPOST_findProbe("r1")
    \/ Untracked /\ SendPOST_create("r1")
    \/ Untracked /\ Return("r1")
    \/ Quiet /\ \E c \in Callers, sv \in ProbedServers, gs \in ProbeGroupLists,
                   cf \in ProbeConfigs : ProbesPOST_session("r1", c, sv, gs, cf)
    \/ checkServerAccess_server("r1")
    \/ checkServerAccess_count("r1")
    \/ ProbesPOST_findGroups("r1")
    \/ ProbesPOST_findServer("r1")
    \/ ProbesPOST_create("r1")
    \/ ProbesPOST_createConfig("r1")
    \/ ProbesPOST_reread("r1")
    \/ Untracked /\ Receive("r1")

\* Probes are created through their route, one request at a time; between
\* two of them results of the checker are evaluated, while the send
\* operations asked for are run one after the other.
SpecTracker == InitTracker /\ [][NextTracker]_vars

(* ------------------------------------------------------------- SpecAccess *)

\* The directory the requests by id run against: u1 registered first
\* (SUPER_ADMIN, ADMIN of the default group g1) and created u2 (role ADMIN)
\* as ADMIN of g1 and u3 (role USER) as MEMBER of g1; no server and no
\* notification configuration exists.
InitAccess ==
    /\ users = [u \in UserIds |->
                  IF u = "u1" THEN "SUPER_ADMIN" ELSE IF u = "u2" THEN "ADMIN" ELSE "USER"]
    /\ groups = {"g1"}
    /\ groupUsers = {GroupUserRow("u1", "g1", "ADMIN"), GroupUserRow("u2", "g1", "ADMIN"),
                     GroupUserRow("u3", "g1", "MEMBER")}
    /\ servers = {}
    /\ configs = [c \in ConfigIds |-> NoConfig]
    /\ emailConfigs = [c \in ConfigIds |-> Absent]
    /\ webhookConfigs = [c \in ConfigIds |-> Absent]
    /\ notifications = <<>>
    /\ slot = [s \in Slots |-> IdleSlot]
    /\ wire = NoWire
    /\ pending = [s \in Slots |-> NoCall]
    /\ late = <<>>
    /\ groupNames = [g \in ServerGroups |-> DefaultName]
    /\ NoProbes

\* The requests by id are handled one after the other in slot r1, each by
\* the steps of its handler: a request is taken up when the response to the
\* one before it has left.
NextAccess ==
    \/ Untracked /\ Calm /\ \E c \in Callers, n \in GroupNameInputs : GroupsPOST_session("r1", c, n)
    \/ Untracked /\ GroupsPOST_createGroup("r1")
    \/ Untracked /\ GroupsPOST_createMember("r1")
    \/ Untracked /\ Calm /\ \E c \in Callers, g \in GroupIds : GroupGET_session("r1", c, g)
    \/ Untracked /\ checkGroupAccess_user("r1")
    \/ Untracked /\ checkGroupAccess_groupUser("r1")
    \/ Untracked /\ GroupGET_find("r1")
    \/ Untracked /\ Calm /\ \E c \in Callers, g \in GroupIds, n \in GroupNameInputs :
          GroupPUT_session("r1", c, g, n)
    \/ Untracked /\ GroupPUT_update("r1")
    \/ Untracked /\ Calm /\ \E c \in Callers, g \in GroupIds : GroupDELETE_session("r1", c, g)
    \/ Untracked /\ GroupDELETE_find("r1")
    \/ GroupDELETE_delete("r1")
    \/ Untracked /\ Calm /\ \E c \in Callers, g \in GroupIds :
          \E l \in ListsFor(c # NoUser /\ checkGroupAdmin(g, c), UserLists) :
             MembersPOST_session("r1", c, g, l)
    \/ Untracked /\ checkGroupAdmin_user("r1")
    \/ Untracked /\ checkGroupAdmin_groupUser("r1")
    \/ Untracked /\ MembersPOST_findGroup("r1")
    \/ Untracked /\ MembersPOST_findMany("r1")
    \/ Untracked /\ \E i \in 1..MaxListLen : MembersPOST_create("r1", i)
    \/ Untracked /\ MembersPOST_done("r1")
    \/ Untracked /\ Calm /\ \E c \in Callers, g \in GroupIds, m \in UserIds,
                         r \in GroupRole \cup {BadRole} : MemberPUT_session("r1", c, g, m, r)
    \/ Untracked /\ MemberPUT_findMember("r1")
    \/ Untracked /\ MemberPUT_currentUser("r1")
    \/ Untracked /\ MemberPUT_findAdmins("r1")
    \/ Untracked /\ MemberPUT_update("r1")
    \/ Untracked /\ Calm /\ \E c \in Callers, g \in GroupIds, m \in UserIds :
          MemberDELETE_session("r1", c, g, m)
    \/ Untracked /\ MemberDELETE_findMember("r1")
    \/ Untracked /\ MemberDELETE_currentUser("r1")
    \/ Untracked /\ MemberDELETE_findAdmins("r1")
    \/ Untracked /\ MemberDELETE_delete("r1")
    \/ Untracked /\ Settle("r1")
    \/ Untracked /\ Calm /\ \E c \in Callers, b \in ConfigBodies :
          NotificationsPOST_session("r1", c, b)
    \/ Untracked /\ NotificationsPOST_access("r1")
    \/ Untracked /\ NotificationsPOST_create("r1")
    \/ Untracked /\ NotificationsPOST_createSub("r1")
    \/ Untracked /\ NotificationsPOST_reread("r1")
    \/ Untracked /\ Calm /\ \E c \in Callers, id \in ConfigIds : NotificationGET_session("r1", c, id)
    \/ Untracked /\ checkAccess_config("r1")
    \/ Untracked /\ checkNotificationAccess_groupUser("r1")
    \/ Untracked /\ NotificationGET_find("r1")
    \/ Untracked /\ Calm /\ \E c \in Callers, id \in ConfigIds, b \in ConfigBodies :
          NotificationPUT_session("r1", c, id, b)
    \/ Untracked /\ checkGroupAdminAccess_groupUser("r1")
    \/ Untracked /\ NotificationPUT_find("r1")
    \/ Untracked /\ NotificationPUT_update("r1")
    \/ Untracked /\ NotificationPUT_deleteOld("r1")
    \/ Untracked /\ NotificationPUT_upsert("r1")
    \/ Untracked /\ NotificationPUT_reread("r1")
    \/ Untracked /\ Calm /\ \E c \in Callers, id \in ConfigIds :
          NotificationDELETE_session("r1", c, id)
    \/ Untracked /\ NotificationDELETE_delete("r1")
    \/ Untracked /\ Return("r1")

SpecAccess == InitAccess /\ [][NextAccess]_vars

(* ------------------------------------------------------------ SpecMembers *)

\* The database after migration: no row in any table.
InitMembers ==
    /\ users = [u \in UserIds |-> Absent]
    /\ groups = {}
    /\ groupUsers = {}
    /\ servers = {}
    /\ configs = [c \in ConfigIds |-> NoConfig]
    /\ emailConfigs = [c \in ConfigIds |-> Absent]
    /\ webhookConfigs = [c \in ConfigIds |-> Absent]
    /\ notifications = <<>>
    /\ slot = [s \in Slots |-> IdleSlot]
    /\ wire = NoWire
    /\ pending = [s \in Slots |-> NoCall]
    /\ late = <<>>
    /\ groupNames = [g \in ServerGroups |-> DefaultName]
    /\ NoProbes

\* Most groups the directory holds at a time.
MaxGroups == 1

\* The requests to the directory routes are handled one after the other in
\* slot r1, each by the steps of its handler: a request is taken up when
\* the response to the one before it has left.
NextMembers ==
    \/ Untracked /\ Calm /\ \E u \in UserIds : Register_find("r1", u)
    \/ Untracked /\ Register_count("r1")
    \/ Untracked /\ Register_createUser("r1")
    \/ Untracked /\ Register_createGroup("r1")
    \/ Untracked /\ Register_createMember("r1")
    \/ Untracked /\ Calm /\ Cardinality(groups) < MaxGroups
          /\ \E c \in Callers, n \in GroupNameInputs : GroupsPOST_session("r1", c, n)
    \/ Untracked /\ GroupsPOST_createGroup("r1")
    \/ Untracked /\ GroupsPOST_createMember("r1")
    \/ Untracked /\ Calm /\ \E c \in Callers, g \in GroupIds : GroupDELETE_session("r1", c, g)
    \/ Untracked /\ GroupDELETE_find("r1")
    \/ GroupDELETE_delete("r1")
    \/ Untracked /\ Calm /\ \E c \in Callers, g \in GroupIds :
          \E l \in ListsFor(c # NoUser /\ checkGroupAdmin(g, c), JoinLists) :
             MembersPOST_session("r1", c, g, l)
    \/ Untracked /\ checkGroupAdmin_user("r1")
    \/ Untracked /\ checkGroupAdmin_groupUser("r1")
    \/ Untracked /\ MembersPOST_findGroup("r1")
    \/ Untracked /\ MembersPOST_findMany("r1")
    \/ Untracked /\ \E i \in 1..MaxListLen : MembersPOST_create("r1", i)
    \/ Untracked /\ MembersPOST_done("r1")
    \/ Untracked /\ Calm /\ \E c \in Callers, g \in GroupIds, m \in UserIds,
                       r \in GroupRole \cup {BadRole} : MemberPUT_session("r1", c, g, m, r)
    \/ Untracked /\ MemberPUT_findMember("r1")
    \/ Untracked /\ MemberPUT_currentUser("r1")
    \/ Untracked /\ MemberPUT_findAdmins("r1")
    \/ Untracked /\ MemberPUT_update("r1")
    \/ Untracked /\ Calm /\ \E c \in Callers, g \in GroupIds, m \in UserIds :
          MemberDELETE_session("r1", c, g, m)
    \/ Untracked /\ MemberDELETE_findMember("r1")
    \/ Untracked /\ MemberDELETE_currentUser("r1")
    \/ Untracked /\ MemberDELETE_findAdmins("r1")
    \/ Untracked /\ MemberDELETE_delete("r1")
    \/ Untracked /\ Calm /\ \E c \in Callers, u \in UserIds, r \in UserRole :
          \E l \in ListsFor(c # NoUser /\ SessionRole(c) = "SUPER_ADMIN" /\ r = "USER", GroupLists) :
             UsersPOST_session("r1", c, u, r, l)
    \/ Untracked /\ UsersPOST_findUser("r1")
    \/ Untracked /\ UsersPOST_createUser("r1")
    \/ Untracked /\ \E i \in 1..MaxListLen : UsersPOST_create("r1", i)
    \/ Untracked /\ UsersPOST_done("r1")
    \/ Untracked /\ Calm /\ \E c \in Callers, u \in UserIds, r \in UserRole \cup {Undefined} :
          \/ UserPUT_session("r1", c, u, r, FALSE, <<>>)
          \/ /\ r = Undefined
             /\ \E l \in ListsFor(c # NoUser /\ SessionRole(c) = "SUPER_ADMIN", GroupLists) :
                   UserPUT_session("r1", c, u, r, TRUE, l)
    \/ Untracked /\ UserPUT_update("r1")
    \/ Untracked /\ UserPUT_deleteMany("r1")
    \/ Untracked /\ \E i \in 1..MaxListLen : UserPUT_create("r1", i)
    \/ Untracked /\ UserPUT_done("r1")
    \/ Untracked /\ Calm /\ \E c \in Callers, u \in UserIds : UserDELETE_session("r1", c, u)
    \/ Untracked /\ UserDELETE_find("r1")
    \/ Untracked /\ UserDELETE_delete("r1")
    \/ Untracked /\ \E i \in 1..(2 * MaxListLen) : lateCreate(i)
    \/ Untracked /\ Receive("r1")

SpecMembers == InitMembers /\ [][NextMembers]_vars

(* ------------------------------------------------------------ SpecServers *)

\* The database that holds the User rows `us`, the Group rows `gs` and the
\* GroupUser rows `ms` and no other row, no request being handled.
Directory(us, gs, ms) ==
    /\ users = us
    /\ groups = gs
    /\ groupUsers = ms
    /\ servers = {}
    /\ configs = [c \in ConfigIds |-> NoConfig]
    /\ emailConfigs = [c \in ConfigIds |-> Absent]
    /\ webhookConfigs = [c \in ConfigIds |-> Absent]
    /\ notifications = <<>>
    /\ slot = [s \in Slots |-> IdleSlot]
    /\ wire = NoWire
    /\ pending = [s \in Slots |-> NoCall]
    /\ late = <<>>
    /\ groupNames = [g \in ServerGroups |-> DefaultName]
    /\ NoProbes

\* The User rows after u1 registered first and created the others as USER
FirstAndUsers == [u \in UserIds |-> IF u = "u1" THEN "SUPER_ADMIN" ELSE "USER"]

\* The handler of slot s is free to take a request.
Free(s) == pending[s].pc = "idle"

\* The directory the server routes run against: u1 registered first
\* (SUPER_ADMIN), u2 is MEMBER of g1 and g2, u3 is ADMIN of g2; no server
\* has been created.
InitServers ==
    Directory(FirstAndUsers, ServerGroups,
              {GroupUserRow("u2", "g1", "MEMBER"), GroupUserRow("u2", "g2", "MEMBER"),
               GroupUserRow("u3", "g2", "ADMIN")})

NextServers ==
    \/ Untracked /\ \E s \in Slots : Free(s) /\ \E c \in Callers : ServersGET_session(s, c)
    \/ Untracked /\ \E s \in Slots : ServersGET_all(s)
    \/ Untracked /\ \E s \in Slots : ServersGET_groups(s)
    \/ Untracked /\ \E s \in Slots : ServersGET_servers(s)
    \/ Untracked /\ \E s \in Slots :
          Free(s) /\ \E c \in Callers, gs \in GroupIdLists : ServersPOST_session(s, c, gs)
    \/ Untracked /\ \E s \in Slots : ServersPOST_check(s)
    \/ Untracked /\ \E s \in Slots : ServersPOST_create(s)
    \/ Untracked /\ \E s \in Slots :
          Free(s) /\ \E c \in Callers, g \in ServerGroups : GroupDELETE_session(s, c, g)
    \/ Untracked /\ \E s \in Slots : GroupDELETE_find(s)
    \/ \E s \in Slots : GroupDELETE_delete(s)
    \/ Untracked /\ \E s \in Slots : Receive(s)

\* Servers are listed and created while groups are deleted, two requests at
\* a time.
SpecServers == InitServers /\ [][NextServers]_vars

(* --------------------------------------------------------------- SpecJoin *)

\* The directory the membership requests run against: u1 registered first
\* (SUPER_ADMIN, ADMIN of the default group g1), u2 is ADMIN of g1 and u3 is
\* in no group.
InitJoin ==
    Directory(FirstAndUsers, {"g1"},
              {GroupUserRow("u1", "g1", "ADMIN"), GroupUserRow("u2", "g1", "ADMIN")})

\* The lists of new members of the request that slot s takes: any list in
\* slot r1, a list of one user at most in slot r2.
JoinListsOf(s) == IF s = "r1" THEN JoinLists ELSE {l \in JoinLists : Len(l) <= 1}

NextJoin ==
    \/ Untracked /\ \E s \in Slots :
          Free(s) /\ \E c \in Callers, g \in GroupIds :
             \E l \in ListsFor(c # NoUser /\ checkGroupAdmin(g, c), JoinListsOf(s)) :
                Room(l) /\ MembersPOST_session(s, c, g, l)
    \/ Untracked /\ \E s \in Slots : checkGroupAdmin_user(s)
    \/ Untracked /\ \E s \in Slots : checkGroupAdmin_groupUser(s)
    \/ Untracked /\ \E s \in Slots : MembersPOST_findGroup(s)
    \/ Untracked /\ \E s \in Slots : MembersPOST_findMany(s)
    \/ Untracked /\ \E s \in Slots, i \in 1..MaxListLen : MembersPOST_create(s, i)
    \/ Untracked /\ \E s \in Slots : MembersPOST_done(s)
    \/ Untracked /\ Free("r1") /\ \E c \in Callers, u \in Joiners :
          \E l \in ListsFor(c # NoUser /\ SessionRole(c) = "SUPER_ADMIN", GroupLists) :
             Room(l) /\ UserPUT_session("r1", c, u, Undefined, TRUE, l)
    \/ Untracked /\ UserPUT_update("r1")
    \/ Untracked /\ UserPUT_deleteMany("r1")
    \/ Untracked /\ \E i \in 1..MaxListLen : UserPUT_create("r1", i)
    \/ Untracked /\ UserPUT_done("r1")
    \/ Untracked /\ \E i \in 1..(2 * MaxListLen) : lateCreate(i)
    \/ Untracked /\ \E s \in Slots : Receive(s)

\* Members are added and group lists are replaced by requests that run
\* together: any two of them in slots r1 and r2, but for two replacements;
\* of two addMembers requests, the one in slot r2 names one user at most.
SpecJoin == InitJoin /\ [][NextJoin]_vars

(* -------------------------------------------------------------- SpecTwice *)

\* body.users of the addMembers request `call`
usersOf(call) ==
    [i \in DOMAIN call.list |-> [id |-> call.list[i].userId, role |-> call.list[i].role]]

\* A client that has the response to its addMembers request sends the
\* same request again: slot r1 holds the first request and its response,
\* slot r2 takes the second.  The creates on their way whose handler has
\* answered stay fewer than MaxListLen.
AddTwice ==
    /\ pending["r1"].op = "addMembers"
    /\ pending["r1"].pc = "done"
    /\ Len(late) < MaxListLen
    /\ Free("r2")
    /\ MembersPOST_session("r2", pending["r1"].caller, pending["r1"].groupId,
                           usersOf(pending["r1"]))

\* The response to the first request is kept while the second is handled.
AddOver == Free("r2") /\ Receive("r1")

NextTwice ==
    \/ Untracked /\ Calm /\ \E u \in UserIds : Register_find("r1", u)
    \/ Untracked /\ Register_count("r1")
    \/ Untracked /\ Register_createUser("r1")
    \/ Untracked /\ Register_createGroup("r1")
    \/ Untracked /\ Register_createMember("r1")
    \/ Untracked /\ Calm /\ \E c \in Callers, g \in GroupIds, m \in UserIds :
          MemberDELETE_session("r1", c, g, m)
    \/ Untracked /\ MemberDELETE_findMember("r1")
    \/ Untracked /\ MemberDELETE_currentUser("r1")
    \/ Untracked /\ MemberDELETE_findAdmins("r1")
    \/ Untracked /\ MemberDELETE_delete("r1")
    \/ Untracked /\ Calm /\ \E c \in Callers, g \in GroupIds :
          \E l \in ListsFor(c # NoUser /\ checkGroupAdmin(g, c), UserLists) :
             MembersPOST_session("r1", c, g, l)
    \/ Untracked /\ AddTwice
    \/ Untracked /\ \E s \in Slots : checkGroupAdmin_user(s)
    \/ Untracked /\ \E s \in Slots : checkGroupAdmin_groupUser(s)
    \/ Untracked /\ \E s \in Slots : MembersPOST_findGroup(s)
    \/ Untracked /\ \E s \in Slots : MembersPOST_findMany(s)
    \/ Untracked /\ \E s \in Slots, i \in 1..MaxListLen : MembersPOST_create(s, i)
    \/ Untracked /\ \E s \in Slots : MembersPOST_done(s)
    \/ Untracked /\ \E i \in 1..(2 * MaxListLen) : lateCreate(i)
    \/ Untracked /\ Receive("r2")
    \/ Untracked /\ AddOver

\* From the empty database: users register, members are removed, and
\* addMembers requests are sent twice in a row, no other request being
\* handled between the two.
SpecTwice == InitMembers /\ [][NextTwice]_vars

(* ------------------------------------------------------------- SpecAdmins *)

\* The directory the member changes run against: u1 registered first
\* (SUPER_ADMIN) and is now a MEMBER of the default group g1, whose two
\* administrators are u2 and u3.
InitAdmins ==
    Directory(FirstAndUsers, {"g1"},
              {GroupUserRow("u1", "g1", "MEMBER"), GroupUserRow("u2", "g1", "ADMIN"),
               GroupUserRow("u3", "g1", "ADMIN")})

NextAdmins ==
    \/ Untracked /\ \E s \in Slots :
          Free(s) /\ \E c \in Callers, g \in GroupIds, m \in UserIds,
                        r \in GroupRole \cup {BadRole} : MemberPUT_session(s, c, g, m, r)
    \/ Untracked /\ \E s \in Slots : checkGroupAdmin_user(s)
    \/ Untracked /\ \E s \in Slots : checkGroupAdmin_groupUser(s)
    \/ Untracked /\ \E s \in Slots : MemberPUT_findMember(s)
    \/ Untracked /\ \E s \in Slots : MemberPUT_currentUser(s)
    \/ Untracked /\ \E s \in Slots : MemberPUT_findAdmins(s)
    \/ Untracked /\ \E s \in Slots : MemberPUT_update(s)
    \/ Untracked /\ \E s \in Slots :
          Free(s) /\ \E c \in Callers, g \in GroupIds, m \in UserIds :
             MemberDELETE_session(s, c, g, m)
    \/ Untracked /\ \E s \in Slots : MemberDELETE_findMember(s)
    \/ Untracked /\ \E s \in Slots : MemberDELETE_currentUser(s)
    \/ Untracked /\ \E s \in Slots : MemberDELETE_findAdmins(s)
    \/ Untracked /\ \E s \in Slots : MemberDELETE_delete(s)
    \/ Untracked /\ \E s \in Slots : Receive(s)

\* Roles of members are changed and members are removed by requests that
\* run together, two at a time.
SpecAdmins == InitAdmins /\ [][NextAdmins]_vars

(* ----------------------------------------------------------- SpecRegister *)

NextRegister ==
    \/ Untracked /\ \E s \in Slots, u \in UserIds : Register_find(s, u)
    \/ Untracked /\ \E s \in Slots : Register_count(s)
    \/ Untracked /\ \E s \in Slots : Register_createUser(s)
    \/ Untracked /\ \E s \in Slots : Register_createGroup(s)
    \/ Untracked /\ \E s \in Slots : Register_createMember(s)
    \/ Untracked /\ \E s \in Slots : Receive(s)

\* From the empty database users register, two requests at a time.
SpecRegister == InitMembers /\ [][NextRegister]_vars

(* -------------------------------------------------------------- SpecUsers *)

NextUsers ==
    \/ Untracked /\ \E s \in Slots :
          Free(s) /\ \E c \in Callers, u \in UserIds, r \in UserRole \cup {Undefined} :
             UserPUT_session(s, c, u, r, FALSE, <<>>)
    \/ Untracked /\ \E s \in Slots : UserPUT_update(s)
    \/ Untracked /\ \E s \in Slots :
          Free(s) /\ \E c \in Callers, u \in UserIds : UserDELETE_session(s, c, u)
    \/ Untracked /\ \E s \in Slots : UserDELETE_find(s)
    \/ Untracked /\ \E s \in Slots : UserDELETE_delete(s)
    \/ Untracked /\ \E s \in Slots : Receive(s)

\* After the registration of u1 and the creation of u2 and u3: users are
\* updated and deleted by requests that run together, two at a time.
SpecUsers == InitJoin /\ [][NextUsers]_vars

(* -------------------------------------------------------------- SpecFrame *)

\* The memberships before each request of SpecFrame
FrameMemberships == {GroupUserRow("u1", "g1", "ADMIN")}

\* The directory the requests of SpecFrame run against: u1 registered first
\* (SUPER_ADMIN, ADMIN of the default group g1) and created u2, who is in no
\* group; no user has the id u3.
InitFrame ==
    Directory([u \in UserIds |-> IF u = "u1" THEN "SUPER_ADMIN"
                                 ELSE IF u = "u2" THEN "USER" ELSE Absent],
              {"g1"}, FrameMemberships)

\* A request is taken up while the memberships are those of InitFrame and
\* no create is on its way.
Framed == Quiet /\ late = <<>> /\ groupUsers = FrameMemberships

NextFrame ==
    \/ Untracked /\ Framed /\ \E c \in Callers, g \in GroupIds :
          \E l \in ListsFor(c # NoUser /\ checkGroupAdmin(g, c), UserLists) :
             MembersPOST_session("r1", c, g, l)
    \/ Untracked /\ checkGroupAdmin_user("r1")
    \/ Untracked /\ checkGroupAdmin_groupUser("r1")
    \/ Untracked /\ MembersPOST_findGroup("r1")
    \/ Untracked /\ MembersPOST_findMany("r1")
    \/ Untracked /\ \E i \in 1..MaxListLen : MembersPOST_create("r1", i)
    \/ Untracked /\ MembersPOST_done("r1")
    \/ Untracked /\ Framed /\ \E c \in Callers, u \in UserIds :
          \E l \in ListsFor(c # NoUser /\ SessionRole(c) = "SUPER_ADMIN", GroupLists) :
             UserPUT_session("r1", c, u, Undefined, TRUE, l)
    \/ Untracked /\ UserPUT_update("r1")
    \/ Untracked /\ UserPUT_deleteMany("r1")
    \/ Untracked /\ \E i \in 1..MaxListLen : UserPUT_create("r1", i)
    \/ Untracked /\ UserPUT_done("r1")
    \/ Untracked /\ \E i \in 1..(2 * MaxListLen) : lateCreate(i)
    \/ Untracked /\ Receive("r1")

\* One membership-changing request at a time, each against the memberships
\* of InitFrame: an addMembers request, or a replacement of a user's group
\* list.
SpecFrame == InitFrame /\ [][NextFrame]_vars

(* -------------------------------------------------------------- SpecRoles *)

\* The handlers that write the User table (register, POST /api/users, PUT
\* and DELETE /api/users/[id]), each by its steps, one request after the
\* other in slot r1.
NextRoles ==
    \/ Untracked /\ Quiet /\ \E u \in UserIds : Register_find("r1", u)
    \/ Untracked /\ Register_count("r1")
    \/ Untracked /\ Register_createUser("r1")
    \/ Untracked /\ Register_createGroup("r1")
    \/ Untracked /\ Register_createMember("r1")
    \/ Untracked /\ Calm /\ \E c \in Callers, u \in UserIds, r \in UserRole :
          \E l \in ListsFor(c # NoUser /\ SessionRole(c) = "SUPER_ADMIN", GroupLists) :
             UsersPOST_session("r1", c, u, r, l)
    \/ Untracked /\ UsersPOST_findUser("r1")
    \/ Untracked /\ UsersPOST_createUser("r1")
    \/ Untracked /\ \E i \in 1..MaxListLen : UsersPOST_create("r1", i)
    \/ Untracked /\ UsersPOST_done("r1")
    \/ Untracked /\ Calm /\ \E c \in Callers, u \in UserIds, r \in UserRole \cup {Undefined} :
          \/ UserPUT_session("r1", c, u, r, FALSE, <<>>)
          \/ \E l \in ListsFor(c # NoUser /\ SessionRole(c) = "SUPER_ADMIN", GroupLists) :
                UserPUT_session("r1", c, u, r, TRUE, l)
    \/ Untracked /\ UserPUT_update("r1")
    \/ Untracked /\ UserPUT_deleteMany("r1")
    \/ Untracked /\ \E i \in 1..MaxListLen : UserPUT_create("r1", i)
    \/ Untracked /\ UserPUT_done("r1")
    \/ Untracked /\ Quiet /\ \E c \in Callers, u \in UserIds : UserDELETE_session("r1", c, u)
    \/ Untracked /\ UserDELETE_find("r1")
    \/ Untracked /\ UserDELETE_delete("r1")
    \/ Untracked /\ Settle("r1")

\* From the empty database: accounts are registered, created, updated and
\* deleted by requests handled one after the other.
SpecRoles == InitMembers /\ [][NextRoles]_vars

(* ------------------------------------------- claims on the dispatch engine *)

\* The caller is SUPER_ADMIN or a member of the group of configuration id
MaySend(c, id) ==
    /\ c \in UserIds
    /\ \/ users[c] = "SUPER_ADMIN"
       \/ \E m \in groupUsers : m.userId = c /\ m.groupId = configOf(id).groupId

\* The request in slot s is the one that took the step.
Stepped(s) == slot'[s] # slot[s]

\* The sub-configs of configuration id are the one its type asks for
ExactlyOneSubConfig(id) ==
    /\ configs[id].type = "EMAIL" =>
          (emailConfigs[id] # Absent /\ webhookConfigs[id] = Absent)
    /\ configs[id].type = "WEBHOOK" =>
          (webhookConfigs[id] # Absent /\ emailConfigs[id] = Absent)

\* Slot s takes the step that follows its pc.
Steps(s, pc) == slot[s].op = "send" /\ slot[s].pc = pc /\ slot'[s] # slot[s]

\* The send request that slot s works on in the step
Sent(s) == IF slot[s].op = "send" THEN slot[s] ELSE slot'[s]

\* C4: a send request by a caller who is unauthenticated, or authenticated
\* but neither SUPER_ADMIN nor a member of the configuration's group, never
\* causes a Notification record to be created nor a channel adapter to be
\* invoked: no step of the handler on such a request writes table
\* Notification or starts a call of an adapter.
C4_SendIsGated ==
    [][\A s \in Slots :
          (/\ Stepped(s)
           /\ Sent(s).op = "send"
           /\ ~ MaySend(Sent(s).caller, Sent(s).id)) =>
             /\ notifications' = notifications
             /\ wire' = wire
      ]_vars

\* The send request of an unauthenticated caller for a configuration and a
\* server that exist has been handled to its end: it is answered 500 and
\* no Notification record is stored.
C4_Witness ==
    \E s \in Slots :
        /\ slot[s].op = "send" /\ slot[s].pc = "done"
        /\ slot[s].caller = NoUser
        /\ slot[s].status = 500
        /\ configOf(slot[s].id) # NoConfig
        /\ ExactlyOneSubConfig(slot[s].id)
        /\ notifications = <<>>

\* C5: at every moment every stored NotificationConfig has exactly one
\* sub-config, the one matching its type, through creations, updates, type
\* switches and updates of one configuration that run together.
C5_ExactlyOneSubConfig ==
    \A id \in ConfigIds : configs[id] # NoConfig => ExactlyOneSubConfig(id)

\* C7: every send that found its configuration and its server, that is,
\* every send that is answered neither 400 (input) nor 404 (configuration
\* or server missing), is answered 200 or 201 and has stored its
\* Notification.
C7_AlwaysSuccess ==
    \A s \in Slots :
        (slot[s].op = "send" /\ slot[s].pc = "done" /\ slot[s].status \notin {400, 404}) =>
            (slot[s].status \in {200, 201} /\ notifications # <<>>)

\* The configuration was read without the sub-config of its type
MissingSubConfig(notificationConfig) ==
    \/ notificationConfig.type = "EMAIL" /\ notificationConfig.emailConfig = Absent
    \/ notificationConfig.type = "WEBHOOK" /\ notificationConfig.webhookConfig = Absent

\* C9 as stated: a send on a configuration that does not exist, or that has
\* no sub-config of its type, is answered 404.
C9_MissingIsNotFound ==
    [][\A s \in Slots :
        /\ \A c \in Callers, id \in ConfigIds, sv \in ServerIds,
              p \in SentProbeIds \cup {Undefined} :
              (configs[id] = NoConfig /\ SendPOST_findConfig(s, c, TRUE, id, sv, p)) =>
                 (slot'[s].pc = "done" /\ slot'[s].status = 404)
        /\ (/\ slot[s].op = "send"
            /\ slot[s].pc \notin {"idle", "done"}
            /\ MissingSubConfig(slot[s].existing)
            /\ slot'[s].pc = "done") => slot'[s].status = 404
      ]_vars

\* C9 amended: a send on a configuration that does not exist is answered 404
\* and stores no Notification; a send that read a configuration without the
\* sub-config of its type is not refused for it: it goes on to the server,
\* and for a server that exists it is answered 500.
C9_MissingSubConfigFails ==
    [][\A s \in Slots :
        /\ \A c \in Callers, id \in ConfigIds, sv \in ServerIds,
              p \in SentProbeIds \cup {Undefined} :
              (configs[id] = NoConfig /\ SendPOST_findConfig(s, c, TRUE, id, sv, p)) =>
                 /\ slot'[s].pc = "done" /\ slot'[s].status = 404
                 /\ notifications' = notifications
        /\ (/\ slot[s].op = "send"
            /\ slot[s].pc \notin {"idle", "done"}
            /\ MissingSubConfig(slot[s].existing)
            /\ slot'[s].pc = "done") =>
              slot'[s].status =
                 IF \E sv \in servers : sv.id = slot[s].serverId THEN 500 ELSE 404
      ]_vars

\* A send on a configuration without the sub-config of its type, for a
\* server that exists, has been answered 500.
C9_Witness ==
    \E s \in Slots :
        /\ slot[s].op = "send" /\ slot[s].pc = "done"
        /\ slot[s].status = 500
        /\ configOf(slot[s].id).type = "EMAIL"
        /\ emailConfigs[slot[s].id] = Absent
        /\ notifications = <<>>

\* C10: a send that has found its configuration and its server creates
\* exactly one new Notification record.
C10_OneAttemptPerSend ==
    [][\A s \in Slots :
          Steps(s, "create") => Len(notifications') = Len(notifications) + 1
      ]_vars

(* ------------------------------------------------ claims on the adapters *)

\* C11: the body posted by a WEBHOOK dispatch is the merge of the stored
\* payload template with the fields of the event: a key of both carries the
\* value of the event (a field that is undefined is left out of the JSON), a
\* key of the template alone carries the value of the template, and the body
\* has no other key.
C11_EventOverTemplate ==
    wire # NoWire =>
        /\ \A k \in DOMAIN wire.event :
              IF wire.event[k] = Undefined
              THEN k \notin DOMAIN wire.payload
              ELSE k \in DOMAIN wire.payload /\ wire.payload[k] = wire.event[k]
        /\ \A k \in DOMAIN wire.template \ DOMAIN wire.event :
              k \in DOMAIN wire.payload /\ wire.payload[k] = wire.template[k]
        /\ DOMAIN wire.payload \subseteq DOMAIN wire.template \cup DOMAIN wire.event

\* A template with a title and a channel was posted with an event of another
\* title.
C11_Witness ==
    /\ wire # NoWire
    /\ {"title", "channel"} \subseteq DOMAIN wire.template
    /\ wire.template["title"] # wire.event["title"]
    /\ wire.payload["title"] = wire.event["title"]
    /\ wire.payload["channel"] = wire.template["channel"]

(* ------------------------------------------------------------------- C24 *)

\* The request in slot s is a type-switching update of a configuration it
\* found with the sub-config of its old type and without one of the new
\* type, and it is about to create the sub-config of the new type.
SwitchCreates(s) ==
    /\ slot[s].op = "updateConfig" /\ slot[s].pc = "upsert"
    /\ slot[s].existing.type # slot[s].body.type
    /\ IF slot[s].body.type = "EMAIL"
       THEN slot[s].existing.emailConfig = Absent /\ slot[s].existing.webhookConfig # Absent
       ELSE slot[s].existing.webhookConfig = Absent /\ slot[s].existing.emailConfig # Absent

\* C24: if, during a type-switching update, the creation of the new
\* sub-config fails, the configuration is left as the request found it:
\* its type is unchanged and the sub-config of the old type is not deleted.
C24_FailedSwitchLeavesConfig ==
    [][\A s \in Slots :
          SwitchCreates(s) /\ slot'[s].pc = "done" /\ slot'[s].status = 500 =>
             /\ configs'[slot[s].id].type = slot[s].existing.type
             /\ emailConfigs'[slot[s].id] = slot[s].existing.emailConfig
             /\ webhookConfigs'[slot[s].id] = slot[s].existing.webhookConfig
      ]_vars

(* ------------------------------------------------------------------- C27 *)

\* The step attaches the configuration id to a group: the row is created,
\* or its groupId is changed.
Attaches(id) == configs'[id] # NoConfig /\ configs'[id].groupId # configs[id].groupId

\* C27: a caller who is not SUPER_ADMIN never causes a NotificationConfig to
\* become attached to a group in which they hold no membership, neither by
\* creating it nor by updating its groupId.
C27_AttachOnlyToOwnGroups ==
    [][\A id \in ConfigIds, s \in Slots :
          Attaches(id) /\ Stepped(s)
             /\ slot[s].caller \in UserIds /\ slot[s].role # "SUPER_ADMIN"
          => \E m \in groupUsers :
                m.userId = slot[s].caller /\ m.groupId = configs'[id].groupId
      ]_vars

(* --------------------------------------------- claims on the status tracker *)

\* The configurations attached to a group that the server of the probe is
\* attached to.
SharedConfigs(p) ==
    {c \in DOMAIN configs :
        /\ configs[c] # NoConfig
        /\ \E sv \in servers : sv.id = probes[p].serverId /\ configs[c].groupId \in sv.groups}

\* The send operations asked for in the step: what the step added to the
\* outbox, given that the step took at most its head.
AskedFor ==
    IF Len(outbox') >= Len(outbox)
    THEN SubSeq(outbox', Len(outbox) + 1, Len(outbox'))
    ELSE <<>>

\* The probe's status changes in the step.
Changes(p) == probes[p] # NoProbe /\ probes'[p].status # probes[p].status

\* C21: whenever a probe's status changes into WARNING or ERROR, the send
\* operation is asked for exactly once for every NotificationConfig attached
\* to a group shared with the probe's server, for that server and probe, and
\* for no other configuration; each of them is then started on the send
\* handler with that configuration, server and probe.
C21_AlertDispatchesToSharedConfigs ==
    [][/\ \A p \in ProbeIds :
            Changes(p) /\ probes'[p].status \in {"WARNING", "ERROR"} =>
               /\ \A c \in DOMAIN configs :
                     Cardinality({i \in DOMAIN AskedFor :
                                     /\ AskedFor[i].notificationConfigId = c
                                     /\ AskedFor[i].serverId = probes[p].serverId
                                     /\ AskedFor[i].probeId = p})
                        = IF c \in SharedConfigs(p) THEN 1 ELSE 0
               /\ Len(AskedFor) = Cardinality(SharedConfigs(p))
       /\ outbox # <<>> /\ outbox' = Tail(outbox) =>
             /\ slot'["r1"].op = "send" /\ slot'["r1"].pc = "findServer"
             /\ slot'["r1"].id = Head(outbox).notificationConfigId
             /\ slot'["r1"].serverId = Head(outbox).serverId
             /\ slot'["r1"].probeId = Head(outbox).probeId
      ]_vars

\* The probe p2 of the server s2, attached to both groups, is in ERROR and
\* a send operation was asked for for each of its three configurations:
\* the first was run by the handler, the second is at the handler's create
\* call, the third waits.
C21_Witness ==
    /\ probes["p2"].status = "ERROR"
    /\ configs["c3"] # NoConfig
    /\ Len(outbox) = 1
    /\ slot["r1"].op = "send" /\ slot["r1"].pc = "create"
    /\ slot["r1"].probeId = "p2" /\ slot["r1"].serverId = "s2"
    /\ slot["r1"].id # outbox[1].notificationConfigId

\* The most recent AlertHistory row of the probe that is not resolved, 0
\* when it has none.
LastOpen(p) ==
    LET open == {i \in DOMAIN alertHistory :
                    alertHistory[i].probeId = p /\ ~ alertHistory[i].resolved}
    IN  IF open = {} THEN 0 ELSE CHOOSE i \in open : \A j \in open : j <= i

\* C22: on every evaluation of a probe result an AlertHistory row is written
\* only when the new status differs from the probe's previous status, and
\* the row carries the probe and its new status; when the status returns to
\* OK after WARNING or ERROR, the most recent unresolved row of that probe
\* is marked resolved with resolvedAt set, no row is created for the OK
\* observation and no other row is touched.
C22_HistoryOnTransitionOnly ==
    [][/\ Len(alertHistory') > Len(alertHistory) =>
             /\ Len(alertHistory') = Len(alertHistory) + 1
             /\ SubSeq(alertHistory', 1, Len(alertHistory)) = alertHistory
             /\ LET row == alertHistory'[Len(alertHistory')]
                IN  /\ Changes(row.probeId)
                    /\ row.status = probes'[row.probeId].status
                    /\ ~ row.resolved
       /\ \A p \in ProbeIds :
             probes[p].status \in {"WARNING", "ERROR"} /\ probes'[p].status = "OK" =>
                /\ Len(alertHistory') = Len(alertHistory)
                /\ \A i \in DOMAIN alertHistory :
                      IF i = LastOpen(p)
                      THEN /\ alertHistory'[i].resolved
                           /\ alertHistory'[i].resolvedAt = now'
                           /\ alertHistory'[i].resolvedAt > alertHistory[i].createdAt
                           /\ alertHistory'[i].probeId = p
                           /\ alertHistory'[i].status = alertHistory[i].status
                      ELSE alertHistory'[i] = alertHistory[i]
       /\ (\A p \in ProbeIds : probes'[p].status = probes[p].status) =>
             alertHistory' = alertHistory
      ]_vars

\* The probe p1 went to WARNING, to ERROR and back to OK: the row of the
\* ERROR is resolved, and no third row was written.
C22_Witness ==
    /\ probes["p1"].status = "OK"
    /\ Len(alertHistory) = 2
    /\ alertHistory[1].status = "WARNING" /\ ~ alertHistory[1].resolved
    /\ alertHistory[2].status = "ERROR" /\ alertHistory[2].resolved
    /\ alertHistory[2].resolvedAt = 3

(* ------------------------------------------------- claims on the directory *)

HasMembers(g) == \E m \in groupUsers : m.groupId = g
HasAdmin(g) == \E m \in groupUsers : m.groupId = g /\ m.role = "ADMIN"

\* m holds an ADMIN membership of g and nobody else does
SoleAdmin(g, m) ==
    /\ \E x \in groupUsers : x.groupId = g /\ x.userId = m /\ x.role = "ADMIN"
    /\ \A x \in groupUsers : (x.groupId = g /\ x.role = "ADMIN") => x.userId = m

IsAdminOf(g, m) ==
    \E x \in groupUsers : x.groupId = g /\ x.userId = m /\ x.role = "ADMIN"

\* The membership of m in g is in its table.
IsMember(g, m) == \E x \in groupUsers : x.groupId = g /\ x.userId = m

\* The caller has the right to administer the group and to act on member m
MayAdminister(c, g, m) ==
    /\ c \in UserIds
    /\ \/ users[c] = "SUPER_ADMIN"
       \/ IsAdminOf(g, c) /\ users[m] # "SUPER_ADMIN"

\* The step in which the handler in slot s of the directory routes answers
\* a request to route `op`; the request it answers.
GroupAnswer(s, op) ==
    pending[s].pc # "done" /\ pending'[s].pc = "done" /\ pending'[s].op = op

\* The step in which the handler in slot s of the notification routes
\* answers a request to route `op`.
ConfigAnswer(s, op) ==
    slot[s].pc # "done" /\ slot'[s].pc = "done" /\ slot'[s].op = op

\* A step of the handler in slot s of a request to route `op` that is not
\* its answer
GroupWorks(s, op) ==
    pending'[s].op = op /\ pending'[s].pc # "done" /\ pending'[s] # pending[s]

\* C2: a demotion to MEMBER or a removal that targets an ADMIN membership,
\* by a caller allowed to administer the group (SUPER_ADMIN or not, the
\* target or not), is refused with Conflict (status 409) exactly when the
\* target is the only ADMIN of the group; refused, it leaves the
\* memberships as they were; otherwise it succeeds, the target's membership
\* is demoted or removed and every other ADMIN membership remains.  No step
\* of the handler before its answer writes a membership.
C2_LastAdminConflict ==
    [][\A s \in Slots :
        LET call == pending'[s]
            c == call.caller
            g == call.groupId
            m == call.userId
        IN  /\ (/\ GroupAnswer(s, "changeRole") /\ call.newRole = "MEMBER"
                /\ MayAdminister(c, g, m) /\ IsAdminOf(g, m)) =>
                  IF SoleAdmin(g, m)
                  THEN /\ call.error = "LAST_ADMIN" /\ call.status = 409
                       /\ groupUsers' = groupUsers
                  ELSE /\ call.status = 200
                       /\ GroupUserRow(m, g, "MEMBER") \in groupUsers'
                       /\ \A x \in groupUsers : x.userId # m => x \in groupUsers'
                       /\ \E x \in groupUsers' :
                             x.groupId = g /\ x.role = "ADMIN" /\ x.userId # m
            /\ (/\ GroupAnswer(s, "removeMember")
                /\ MayAdminister(c, g, m) /\ IsAdminOf(g, m)) =>
                  IF SoleAdmin(g, m)
                  THEN /\ call.error = "LAST_ADMIN" /\ call.status = 409
                       /\ groupUsers' = groupUsers
                  ELSE /\ call.status = 200
                       /\ ~ \E x \in groupUsers' : x.groupId = g /\ x.userId = m
                       /\ \A x \in groupUsers : x.userId # m => x \in groupUsers'
                       /\ \E x \in groupUsers' :
                             x.groupId = g /\ x.role = "ADMIN" /\ x.userId # m
            /\ (GroupWorks(s, "changeRole") \/ GroupWorks(s, "removeMember")) =>
                  groupUsers' = groupUsers
      ]_vars

\* C3: a caller who is not SUPER_ADMIN and asks to change the role of, or to
\* remove, a membership of a user whose global role is SUPER_ADMIN is
\* answered 403 and the memberships stay as they were, also when the caller
\* is ADMIN of the group.
C3_SuperAdminMembershipProtected ==
    [][\A s \in Slots :
        LET call == pending'[s]
            c == call.caller
            g == call.groupId
            m == call.userId
        IN  /\ (/\ \/ GroupAnswer(s, "changeRole") /\ call.newRole \in GroupRole
                   \/ GroupAnswer(s, "removeMember")
                /\ c \in UserIds /\ users[c] # "SUPER_ADMIN"
                /\ users[m] = "SUPER_ADMIN" /\ IsMember(g, m)) =>
                  (call.status = 403 /\ groupUsers' = groupUsers)
            /\ (GroupWorks(s, "changeRole") \/ GroupWorks(s, "removeMember")) =>
                  groupUsers' = groupUsers
      ]_vars

\* An ADMIN of the group who is not SUPER_ADMIN was refused the role change
\* of a SUPER_ADMIN's membership.
C3_Witness ==
    /\ pending["r1"].pc = "done"
    /\ pending["r1"].op = "changeRole"
    /\ pending["r1"].status = 403
    /\ pending["r1"].caller \in UserIds
    /\ users[pending["r1"].caller] # "SUPER_ADMIN"
    /\ users[pending["r1"].userId] = "SUPER_ADMIN"
    /\ IsAdminOf(pending["r1"].groupId, pending["r1"].caller)
    /\ IsMember(pending["r1"].groupId, pending["r1"].userId)

(* ------------------------------------------------------------------- C13 *)

\* The rows of the database.
db == <<users, groups, groupUsers, servers, configs, emailConfigs, webhookConfigs,
        notifications, groupNames>>

\* canAdminister: SUPER_ADMIN, or an ADMIN membership of group g
CanAdminister(c, g) == users[c] = "SUPER_ADMIN" \/ IsAdminOf(g, c)

\* c is not SUPER_ADMIN and the membership c holds in g is MEMBER
MemberOnly(c, g) ==
    /\ users[c] # "SUPER_ADMIN"
    /\ \E x \in groupUsers : x.groupId = g /\ x.userId = c /\ x.role = "MEMBER"
    /\ ~ IsAdminOf(g, c)

\* The routes that update or delete a group or a membership, a configuration
GroupChanges == {"updateGroup", "deleteGroup", "changeRole", "removeMember"}
ConfigChanges == {"updateConfig", "deleteConfig"}

\* The handler in slot s of a configuration update or deletion gets past
\* its access check in this step.
ConfigGranted(s) ==
    /\ slot'[s].op \in ConfigChanges
    /\ slot[s].pc \in {"idle", "accessMember"}
    /\ slot'[s].pc \in {"find", "delete"}

\* C13: an update or deletion of a group, of a group membership, or of a
\* notification configuration goes through only if the caller is SUPER_ADMIN
\* or holds an ADMIN membership in the group concerned (for a
\* configuration: the group it belongs to); a caller holding only a MEMBER
\* membership is answered 403 and no row is changed.  The handlers of the
\* group and membership routes write in the step that answers 200; those of
\* the configuration routes write after their access check.
C13_OnlyAdminsChange ==
    [][\A s \in Slots :
        /\ \A op \in GroupChanges :
             LET call == pending'[s]
                 c == call.caller
                 g == call.groupId
             IN  /\ (GroupAnswer(s, op) /\ c \in UserIds) =>
                       /\ call.status = 200 => CanAdminister(c, g)
                       /\ MemberOnly(c, g) => (call.status = 403 /\ UNCHANGED db)
                 /\ GroupWorks(s, op) => UNCHANGED db
        /\ \A op \in ConfigChanges :
             LET r == slot'[s]
                 c == r.caller
             IN  /\ (ConfigGranted(s) /\ r.op = op) =>
                       /\ c \in UserIds
                       /\ CanAdminister(c, configOf(r.id).groupId)
                 /\ (ConfigAnswer(s, op) /\ c \in UserIds
                        /\ MemberOnly(c, configOf(r.id).groupId)) =>
                       (r.status = 403 /\ UNCHANGED db)
                 /\ (Stepped(s) /\ r.op = op /\ r.pc \in {"accessConfig", "accessMember"}) =>
                       UNCHANGED db
      ]_vars

\* u3, who holds a MEMBER membership in g1 and is not SUPER_ADMIN, is
\* answered 403 on the deletion of a configuration of g1 that an ADMIN has
\* updated to WEBHOOK, in a group that an update has renamed.
C13_Witness ==
    /\ slot["r1"].pc = "done" /\ slot["r1"].op = "deleteConfig"
    /\ slot["r1"].caller = "u3" /\ slot["r1"].status = 403
    /\ MemberOnly("u3", "g1")
    /\ configs["c1"] = ConfigRow("WEBHOOK", "g1")
    /\ groupNames["g1"] = NewName

(* ------------------------------------------------------------------- C14 *)

\* canView: SUPER_ADMIN, or a membership of group g
CanView(c, g) ==
    users[c] = "SUPER_ADMIN" \/ \E x \in groupUsers : x.groupId = g /\ x.userId = c

\* A request is answered 404 only if `exists` is false, and 403 if `exists`
\* holds and `rights` does not.
DeniedNotHidden(status, exists, rights) ==
    /\ status = 404 => ~ exists
    /\ (exists /\ ~ rights) => status = 403

\* The handler in slot s of the notification routes answers a request to
\* route `op` before it has written a row.
ConfigDecided(s, op) ==
    /\ ConfigAnswer(s, op)
    /\ slot[s].pc \in {"idle", "accessConfig", "accessMember", "find", "delete"}

\* C14: for a request on a group, a group member or a notification
\* configuration by an authenticated caller: when the resource exists and
\* the caller lacks rights the answer is 403 and never 404; a 404 answer is
\* given only when the addressed resource does not exist.
C14_DeniedNotHidden ==
    [][\A s \in Slots :
        /\ LET call == pending'[s]
               c == call.caller
               g == call.groupId
               m == call.userId
           IN  c \in UserIds =>
                 /\ (GroupAnswer(s, "changeRole") \/ GroupAnswer(s, "removeMember")) =>
                       DeniedNotHidden(call.status, IsMember(g, m), CanAdminister(c, g))
                 /\ GroupAnswer(s, "addMembers") =>
                       DeniedNotHidden(call.status, g \in groups, CanAdminister(c, g))
                 /\ GroupAnswer(s, "getGroup") =>
                       DeniedNotHidden(call.status, g \in groups, CanView(c, g))
                 /\ (GroupAnswer(s, "updateGroup") \/ GroupAnswer(s, "deleteGroup")) =>
                       DeniedNotHidden(call.status, g \in groups, CanAdminister(c, g))
        /\ LET r == slot'[s]
               c == r.caller
               config == configOf(r.id)
           IN  c \in UserIds =>
                 /\ ConfigDecided(s, "getConfig") =>
                       DeniedNotHidden(r.status, config # NoConfig,
                                       CanView(c, config.groupId))
                 /\ (ConfigDecided(s, "updateConfig") \/ ConfigDecided(s, "deleteConfig")) =>
                       DeniedNotHidden(r.status, config # NoConfig,
                                       CanAdminister(c, config.groupId))
      ]_vars

\* u3, removed from g1 and not SUPER_ADMIN, asks for the configuration c1
\* of g1, which exists, and is answered 403.
C14_Witness ==
    /\ slot["r1"].pc = "done" /\ slot["r1"].op = "getConfig"
    /\ slot["r1"].caller = "u3" /\ slot["r1"].status = 403
    /\ configs["c1"] # NoConfig
    /\ ~ CanView("u3", configs["c1"].groupId)

(* ------------------------------------------------------------------- C15 *)

\* C15: a GET, PUT or DELETE by an authenticated caller, SUPER_ADMIN or
\* not, that addresses a group id or a notification configuration id that
\* is not in its table is answered 404 (the body of a configuration PUT
\* being one the schema accepts, and the name of a group PUT likewise).
C15_MissingIsNotFound ==
    [][\A s \in Slots :
        /\ LET call == pending'[s]
           IN  (call.caller \in UserIds /\ call.groupId \notin groups) =>
                 /\ (GroupAnswer(s, "getGroup") \/ GroupAnswer(s, "deleteGroup")) =>
                       call.status = 404
                 /\ (GroupAnswer(s, "updateGroup") /\ pending[s].name # "") =>
                       call.status = 404
        /\ LET r == slot'[s]
           IN  (r.caller \in UserIds /\ configOf(r.id) = NoConfig) =>
                 /\ (ConfigAnswer(s, "getConfig") \/ ConfigAnswer(s, "deleteConfig")) =>
                       r.status = 404
                 /\ (ConfigAnswer(s, "updateConfig") /\ slot[s].pc # "idle"
                        /\ slot[s].body \in notificationSchema) => r.status = 404
                 /\ (slot[s].pc = "idle" /\ ConfigAnswer(s, "updateConfig")) =>
                       \A b \in notificationSchema :
                           NotificationPUT_session(s, r.caller, r.id, b) => r.status = 404
      ]_vars

(* ------------------------------------------------------------------- C19 *)

\* C19: for a notification configuration created as EMAIL with recipients,
\* then switched to WEBHOOK, then switched back to EMAIL: the switch back is
\* accepted only if recipients are supplied again, the resulting emailConfig
\* holds the newly supplied recipients only, and at no point do an
\* emailConfig and a webhookConfig exist together for the configuration.
C19_TypeRoundTrip ==
    [][\A id \in ConfigIds :
          /\ ~ (emailConfigs'[id] # Absent /\ webhookConfigs'[id] # Absent)
          /\ \A s \in Slots :
                /\ (/\ slot[s].op = "updateConfig" /\ slot[s].pc = "find"
                    /\ slot[s].id = id
                    /\ configs[id].type = "WEBHOOK"
                    /\ slot[s].body.type = "EMAIL"
                    /\ slot'[s].pc = "update") => slot[s].body.config \in Recipients
                /\ (/\ slot[s].op = "updateConfig" /\ slot[s].pc = "upsert"
                    /\ slot[s].id = id
                    /\ slot[s].body.type = "EMAIL"
                    /\ slot[s].existing.type = "WEBHOOK"
                    /\ slot'[s] # slot[s]) =>
                       /\ slot'[s].pc = "reread"
                       /\ emailConfigs'[id] = slot[s].body.config
                       /\ webhookConfigs'[id] = Absent
                /\ (/\ slot[s].op = "updateConfig" /\ slot[s].pc = "reread"
                    /\ slot[s].id = id
                    /\ slot'[s] # slot[s]) =>
                       /\ slot'[s].pc = "done" /\ slot'[s].status = 200
                       /\ UNCHANGED <<configs, emailConfigs, webhookConfigs>>]_vars

\* The configuration c1 was WEBHOOK with its webhookConfig; a switch back to
\* EMAIL with recipients rb has removed the webhookConfig and is about to
\* write the emailConfig, no earlier emailConfig being there.
C19_Witness ==
    /\ slot["r1"].op = "updateConfig" /\ slot["r1"].pc = "upsert"
    /\ slot["r1"].body.type = "EMAIL" /\ slot["r1"].body.config = "rb"
    /\ slot["r1"].existing.type = "WEBHOOK"
    /\ slot["r1"].existing.webhookConfig # Absent
    /\ slot["r1"].existing.emailConfig = Absent
    /\ configs["c1"].type = "EMAIL"
    /\ emailConfigs["c1"] = Absent /\ webhookConfigs["c1"] = Absent

(* -------------------------------------------------------------------- C1 *)

\* C1: every group that has at least one membership has at least one
\* membership with role ADMIN, after any sequence of API operations: when
\* no request is being handled.
C1_EveryGroupKeepsAnAdmin ==
    Quiet => \A g \in groups : HasMembers(g) => HasAdmin(g)

(* ------------------------------------------------------------------- C12 *)

\* The servers a caller may view: all of them for a SUPER_ADMIN, otherwise
\* those attached to a group in which the caller has a membership.
Viewable(caller) ==
    IF users[caller] = "SUPER_ADMIN"
    THEN servers
    ELSE {sv \in servers :
            \E m \in groupUsers : m.userId = caller /\ m.groupId \in sv.groups}

\* The handler in slot s answers a server list request in this step.
ListAnswered(s) == GroupAnswer(s, "listServers") /\ pending'[s].status = 200

\* C12: the server list answered to a caller whose global role is not
\* SUPER_ADMIN holds exactly the servers attached to at least one group in
\* which the caller has a membership, so that a server attached to no group
\* is not listed, not even for its creator; a SUPER_ADMIN receives all
\* servers.
C12_ServerListIsViewable ==
    [][\A s \in Slots :
          ListAnswered(s) =>
              pending'[s].servers = {sv.id : sv \in Viewable(pending'[s].caller)}]_vars

\* A server lost its only group to a group deletion; its creator u2, who is
\* still a member of another group, is answered a list that holds another
\* server and not this one.
C12_Witness ==
    \E s \in Slots, sv \in servers :
        /\ pending[s].pc = "done" /\ pending[s].op = "listServers"
        /\ pending[s].status = 200 /\ pending[s].caller = "u2"
        /\ sv.groups = {} /\ sv.createdById = "u2"
        /\ sv.id \notin pending[s].servers
        /\ pending[s].servers # {}
        /\ \E m \in groupUsers : m.userId = "u2"

(* ------------------------------------------------------------------- C20 *)

\* C20: a group is never deleted while at least one server is attached to
\* it: a group that leaves the Group table in a step has no server attached
\* when the step is taken, also when a server is created in the group while
\* the delete request is handled.
C20_NoDeleteWithServers ==
    [][\A g \in groups \ groups' : ~ \E sv \in servers : g \in sv.groups]_vars

(* ------------------------------------------------------------------- C16 *)

\* C16: the global role of a user changes only through a request made by a
\* SUPER_ADMIN on another user's account: a request by a user on their own
\* account never changes that user's role, and a caller who is not
\* SUPER_ADMIN changes no user's role.
C16_RoleChangesBySuperAdminOnly ==
    [][\A u \in UserIds :
          (users[u] # Absent /\ users'[u] # Absent /\ users'[u] # users[u]) =>
              \E s \in Slots :
                  /\ pending[s].op = "updateUser"
                  /\ pending[s].pc # "done"
                  /\ pending'[s] # pending[s]
                  /\ pending[s].userId = u
                  /\ pending[s].caller # u
                  /\ pending[s].caller \in UserIds
                  /\ users[pending[s].caller] = "SUPER_ADMIN"]_vars

\* A SUPER_ADMIN who is not the first user has updated their own account:
\* the request is answered 200 and the role is the one the account had.
C16_Witness ==
    /\ pending["r1"].pc = "done"
    /\ pending["r1"].op = "updateUser" /\ pending["r1"].status = 200
    /\ pending["r1"].caller = pending["r1"].userId
    /\ pending["r1"].caller \in UserIds \ {"u1"}
    /\ users[pending["r1"].caller] = "SUPER_ADMIN"

(* ------------------------------------------------------------------- C17 *)

\* C17: at all times there is at most one membership per (user, group)
\* pair, also after addMembers with a list that names a user twice, after
\* addMembers calls that run together on one group, and after a
\* SUPER_ADMIN has replaced the group list of a user.
C17_OneMembershipPerPair ==
    \A a, b \in groupUsers :
        (a.userId = b.userId /\ a.groupId = b.groupId) => a = b

\* Two addMembers requests on g1 have run together: one is answered 201,
\* the other 500 because a create of its Promise.all was refused, and u3
\* and u2 are members of g1.
C17_Witness ==
    /\ pending["r1"].op = "addMembers" /\ pending["r1"].pc = "done"
    /\ pending["r1"].status = 500
    /\ pending["r2"].op = "addMembers" /\ pending["r2"].pc = "done"
    /\ pending["r2"].status = 201
    /\ IsMember("g1", "u3") /\ IsMember("g1", "u2")

(* ------------------------------------------------------------------- C18 *)

\* The handler of addMembers took the request as one to carry out: the
\* caller may administer the group, the group exists, and the answer is
\* that of the reading of the members or of the creates.
Accepted(call) ==
    /\ call.op = "addMembers" /\ call.pc = "done"
    /\ (call.status \in {201, 500} \/ call.error = "ALREADY_MEMBERS")

\* C18: calling addMembers twice in a row with the same user list on the
\* same group leaves the membership set as calling it once: no step of
\* the second call creates a membership row, and the second call reports
\* every listed user as already a member.
C18_AddMembersTwice ==
    [][Accepted(pending["r1"]) =>
          /\ pending'["r2"] # pending["r2"] => groupUsers' = groupUsers
          /\ GroupAnswer("r2", "addMembers") =>
                pending'["r2"].error = "ALREADY_MEMBERS"
      ]_vars

(* ------------------------------------------------------------------- C23 *)

\* The write the request in slot s is about to make takes the ADMIN role
\* from a member of group g.
TakesAdmin(s, g) ==
    /\ pending[s].op \in {"changeRole", "removeMember"}
    /\ pending[s].pc = "write"
    /\ pending[s].member.groupId = g
    /\ IsAdminOf(g, pending[s].member.userId)
    /\ pending[s].op = "changeRole" => pending[s].newRole = "MEMBER"

\* C23: when two requests that each demote or remove a different
\* administrator of a group with two administrators run together, at most
\* one of them gets as far as its write (the count of administrators and
\* the write are one atomic unit), and the group never ends with no ADMIN.
C23_ConcurrentDemotionsKeepAnAdmin ==
    /\ \A g \in groups : \E m \in groupUsers : m.groupId = g /\ m.role = "ADMIN"
    /\ \A g \in groups : \A s, t \in Slots :
          s # t /\ TakesAdmin(s, g) /\ TakesAdmin(t, g)
             /\ pending[s].member.userId # pending[t].member.userId
          => Cardinality({m \in groupUsers : m.groupId = g /\ m.role = "ADMIN"}) > 2

(* ------------------------------------------------------------------- C25 *)

\* C25: a membership-changing request that ends in an error leaves the
\* membership set as it was before the request: an addMembers request one
\* of whose creates fails persists none of its rows, and a replacement of a
\* user's group list that fails while creating has not removed the old
\* memberships.  Every request of SpecFrame starts from FrameMemberships;
\* the calls the handler started have all reached the database.
C25_FailedRequestKeepsMemberships ==
    (/\ pending["r1"].pc = "done"
     /\ pending["r1"].op \in {"addMembers", "updateUser"}
     /\ pending["r1"].status >= 400
     /\ late = <<>>) => groupUsers = FrameMemberships

(* ------------------------------------------------------------------- C28 *)

\* C28: across any interleaving of registrations, two of them running
\* together on an empty User table included, at most one user holds the
\* role SUPER_ADMIN and at most one default group exists; every other
\* registered user holds the role USER.
C28_OneFirstUser ==
    /\ Cardinality({u \in UserIds : users[u] = "SUPER_ADMIN"}) <= 1
    /\ Cardinality(groups) <= 1
    /\ \A u \in UserIds : users[u] \in {Absent, "SUPER_ADMIN", "USER"}

(* ------------------------------------------------------------------- C29 *)

\* C29: once the first user has registered, at least one user holds the
\* role SUPER_ADMIN after any sequence or interleaving of user updates and
\* deletions.
C29_SuperAdminRemains == \E u \in UserIds : users[u] = "SUPER_ADMIN"

=============================================================================
